---- MODULE Spec2Model ----
(***************************************************************************)
(* Model of the Mikrotik traffic analyzer: the log parsing pipeline        *)
(* (modules/data_processor.py, parse_mikrotik_logs), the aggregation       *)
(* engine (process_traffic_data) and the session handling of app.py.       *)
(*                                                                         *)
(* Text representation.  A file is a sequence of lines.  A line is a       *)
(* sequence of words (separated by runs of whitespace); a word is a        *)
(* non-empty sequence of atoms separated by commas; an atom is either a    *)
(* plain token or a key=value token.  The character-level facts the code   *)
(* asks about a token (which regular expression it matches, which number   *)
(* it denotes, its lower-case form) are tabulated below for the finite     *)
(* vocabulary the inputs are drawn from.  Within that vocabulary a         *)
(* key=value token is always a whole word and a comma never touches        *)
(* whitespace.                                                             *)
(***************************************************************************)
EXTENDS Integers, Sequences, FiniteSets, TLC

VARIABLES content, pc, df, stats, arg,
          heap, data, filtered_data, file_uploaded, start_date, end_date,
          line_data, chart

vars == <<content, pc, df, stats, arg,
          heap, data, filtered_data, file_uploaded, start_date, end_date,
          line_data, chart>>

-----------------------------------------------------------------------------
(* Bounds of the model *)

MaxLines == 3

-----------------------------------------------------------------------------
(* Atoms, words, lines *)

P(s) == [k |-> "", v |-> s, q |-> FALSE]
KV(key, val) == [k |-> key, v |-> val, q |-> FALSE]
KVQ(key, val) == [k |-> key, v |-> val, q |-> TRUE]

W(a) == <<a>>

RECURSIVE SeqMax(_)
SeqMax(s) == IF s = <<>> THEN 0
             ELSE LET m == SeqMax(Tail(s)) IN IF Head(s) > m THEN Head(s) ELSE m

Last(s) == s[Len(s)]
Front(s) == SubSeq(s, 1, Len(s) - 1)
Range(s) == {s[i] : i \in 1..Len(s)}
Min(a, b) == IF a < b THEN a ELSE b

\* The characters of an atom as the file holds them.
AtomText(a) ==
    IF a.k = "" THEN a.v
    ELSE IF a.q THEN a.k \o "=\"" \o a.v \o "\""
    ELSE a.k \o "=" \o a.v

\* Atoms joined by single blanks.
RECURSIVE JoinAtoms(_)
JoinAtoms(as) ==
    IF as = <<>> THEN ""
    ELSE IF Len(as) = 1 THEN AtomText(as[1])
    ELSE AtomText(as[1]) \o " " \o JoinAtoms(Tail(as))

\* The atoms of a line in file order; sp says the atom follows whitespace
\* (FALSE: it follows a comma or starts the line).
RECURSIVE FlatLine(_)
FlatLine(line) ==
    IF line = <<>> THEN <<>>
    ELSE LET w == Head(line)
             rest == FlatLine(Tail(line))
             mark == IF rest = <<>> THEN rest
                     ELSE <<[a |-> rest[1].a, sp |-> TRUE]>> \o Tail(rest)
         IN [i \in 1..Len(w) |-> [a |-> w[i], sp |-> FALSE]] \o mark

-----------------------------------------------------------------------------
(* Character-level tables of the vocabulary *)

\* str.lower()
LowerTable ==
    ( "SRC_IP" :> "src_ip" @@ "SRC-IP" :> "src-ip" @@ "Bytes" :> "bytes"
      @@ "Timestamp" :> "timestamp" @@ "TCP" :> "tcp" @@ "UDP" :> "udp"
      @@ "Oct" :> "oct" )
Lower(s) == IF s \in DOMAIN LowerTable THEN LowerTable[s] ELSE s

\* str.replace('-', '_')
HyphenTable ==
    ( "src-ip" :> "src_ip" @@ "dst-ip" :> "dst_ip" @@ "src-port" :> "src_port"
      @@ "dst-port" :> "dst_port" @@ "2023-10-05" :> "2023_10_05"
      @@ "2023-10-06" :> "2023_10_06" @@ "2023-13-45" :> "2023_13_45" )
HyphenToUnderscore(s) == IF s \in DOMAIN HyphenTable THEN HyphenTable[s] ELSE s

\* str.strip(':') : no token of the vocabulary starts or ends with a colon.
StripColon(s) == s

\* Tokens matching ^[a-zA-Z][a-zA-Z0-9_-]*$
IdentWords ==
    { "timestamp", "Timestamp", "time", "src_ip", "source_ip", "SRC_IP",
      "dst_ip", "bytes", "Bytes", "protocol", "dst_port", "TCP", "UDP",
      "not_a_number", "Oct", "a", "b" }

\* Decimal numerals and the numbers they denote (pd.to_numeric, read_csv).
NumeralTable ==
    ( "1240" :> 1240 @@ "64" :> 64 @@ "8540" :> 8540 @@ "443" :> 443
      @@ "53" :> 53 @@ "54321" :> 54321 @@ "5" :> 5 )
IsNumeral(s) == s \in DOMAIN NumeralTable

\* Tokens whose first non-blank character is '#'.
HashWords == { "#note" }

\* \d{4}-\d{2}-\d{2} and the day it names, counted from Monday 2023-10-02;
\* a token of that shape naming no calendar day is in DateShaped only.
DateShaped == { "2023-10-05", "2023-10-06", "2023-13-45" }
DateTable == ( "2023-10-05" :> 3 @@ "2023-10-06" :> 4 )

\* \d{2}:\d{2}:\d{2} and the second of the day.
TimeShaped == { "08:23:45", "09:10:00" }
TimeTable == ( "08:23:45" :> 30225 @@ "09:10:00" :> 33000 )

\* \d{1,2}/\d{1,2}/\d{4}
SlashDateTable == ( "10/5/2023" :> 3 )

\* The last three characters of the tokens that end in \w{3}, and the
\* %b month names; a day of the year 1900 is negative on this calendar.
TailTable ==
    ( "Oct" :> "Oct" @@ "1240" :> "240" @@ "8540" :> "540" @@ "443" :> "443"
      @@ "54321" :> "321" @@ "TCP" :> "TCP" @@ "UDP" :> "UDP"
      @@ "timestamp" :> "amp" @@ "Timestamp" :> "amp" @@ "time" :> "ime"
      @@ "src_ip" :> "_ip" @@ "source_ip" :> "_ip" @@ "SRC_IP" :> "_IP"
      @@ "dst_ip" :> "_ip" @@ "bytes" :> "tes" @@ "Bytes" :> "tes"
      @@ "protocol" :> "col" @@ "dst_port" :> "ort" @@ "not_a_number" :> "ber"
      @@ "5" :> "5" )
\* Day number of the first of the month in 1900, by lower-cased %b name.
Month1900Start == ( "oct" :> 0 - 44926 )
\* Tokens that are exactly \d{1,2}.
DayDigits == { "5", "53", "64" }

\* Seconds from Monday 2023-10-02 00:00:00 to second sec of day number day.
Instant(day, sec) == day * 86400 + sec

\* 1970-01-01 00:00:00 on that calendar (day -19632).
EpochInstant == Instant(0 - 19632, 0)

-----------------------------------------------------------------------------
(* Cell values and frames (pandas.DataFrame) *)

Str(s) == [t |-> "str", s |-> s, n |-> 0]
Num(n) == [t |-> "num", s |-> "", n |-> n]
Ts(n)  == [t |-> "ts",  s |-> "", n |-> n]
NaN    == [t |-> "nan", s |-> "", n |-> 0]
NaT    == [t |-> "nat", s |-> "", n |-> 0]
None   == [t |-> "none", s |-> "", n |-> 0]

IsNull(x) == x.t \in {"nan", "nat"}

\* A frame: column names in order, the dtype of each column, and the rows
\* (each a function from the column names to cell values).
Frame(cols, dtype, rows) == [cols |-> cols, dtype |-> dtype, rows |-> rows]
EmptyFrame == Frame(<<>>, <<>>, <<>>)

HasCol(f, c) == c \in Range(f.cols)
ColIndex(f, c) == CHOOSE i \in 1..Len(f.cols) : f.cols[i] = c
DtypeOf(f, c) == f.dtype[ColIndex(f, c)]
Column(f, c) == [i \in 1..Len(f.rows) |-> f.rows[i][c]]

\* dtype pandas infers for a column of cell values.
InferDtype(cells) ==
    IF \E i \in 1..Len(cells) : cells[i].t = "str" THEN "object"
    ELSE IF \E i \in 1..Len(cells) : cells[i].t = "ts" THEN "datetime"
    ELSE IF \E i \in 1..Len(cells) : cells[i].t = "num"
         THEN (IF \E i \in 1..Len(cells) : IsNull(cells[i]) THEN "float" ELSE "int")
    ELSE IF \E i \in 1..Len(cells) : cells[i].t = "nat" THEN "datetime"
    ELSE IF cells = <<>> THEN "object"
    ELSE "float"

-----------------------------------------------------------------------------
(* Tokenizer / line filter: data_processor.py lines 21-28 *)

IsBlank(line) == line = <<>>
IsComment(line) == line # <<>> /\ AtomText(line[1][1]) \in HashWords
KeepLine(line) == ~IsBlank(line) /\ ~IsComment(line)

\* lines = [line for line in lines if line.strip() and not line.strip().startswith('#')]
FilterLines(c) == SelectSeq(c, KeepLine)

-----------------------------------------------------------------------------
(* Delimited-table detector: pd.read_csv(io.StringIO(log_content)) and the   *)
(* timestamp conversion, data_processor.py lines 31-44                       *)

\* The comma-separated fields of a line; a field is the atoms it holds,
\* which the file separates by blanks.
RECURSIVE FieldsOfFlat(_)
FieldsOfFlat(flat) ==
    IF flat = <<>> THEN <<>>
    ELSE LET before == FieldsOfFlat(Front(flat))
             x == Last(flat)
         IN IF x.sp /\ before # <<>>
            THEN Front(before) \o <<Append(Last(before), x.a)>>
            ELSE Append(before, <<x.a>>)
CsvFields(line) == FieldsOfFlat(FlatLine(line))

NotBlank(line) == ~IsBlank(line)
\* read_csv skips blank lines (skip_blank_lines=True) and keeps '#' lines.
CsvLines(c) == SelectSeq(c, NotBlank)

DigitText == <<"1", "2", "3", "4", "5", "6", "7", "8", "9">>
\* Duplicate header names are renamed name.1, name.2, ...
MangleDup(names) ==
    [i \in 1..Len(names) |->
        LET n == Cardinality({j \in 1..(i - 1) : names[j] = names[i]})
        IN IF n = 0 THEN names[i] ELSE names[i] \o "." \o DigitText[n]]

\* Number of fields the tokenizer expects from the second data row on:
\* the header and the first data row are exempt from the check.
CsvExpected(ls) ==
    LET h == Len(CsvFields(ls[1]))
    IN IF Len(ls) >= 2 /\ Len(CsvFields(ls[2])) > h THEN Len(CsvFields(ls[2])) ELSE h

\* ParserError "Expected n fields in line m, saw k".
CsvTokenizeError(ls) ==
    \E i \in 3..Len(ls) : Len(CsvFields(ls[i])) > CsvExpected(ls)

\* pd.to_datetime of one text cell, errors='coerce'.
ToDatetimeField(field) ==
    IF Len(field) = 2 /\ field[1].k = "" /\ field[2].k = ""
       /\ field[1].v \in DOMAIN DateTable /\ field[2].v \in DOMAIN TimeTable
    THEN Ts(Instant(DateTable[field[1].v], TimeTable[field[2].v]))
    ELSE IF Len(field) = 1 /\ field[1].k = "" /\ field[1].v \in DOMAIN DateTable
    THEN Ts(Instant(DateTable[field[1].v], 0))
    ELSE NaT

IsNumeralField(field) == Len(field) = 1 /\ field[1].k = "" /\ IsNumeral(field[1].v)

\* The cells of data column j: the raw fields (<<>> where the row is short).
CsvRawColumn(ls, j) ==
    LET lead == CsvExpected(ls) - Len(CsvFields(ls[1]))
    IN [r \in 1..(Len(ls) - 1) |->
          LET fs == CsvFields(ls[r + 1])
          IN IF lead + j <= Len(fs) THEN fs[lead + j] ELSE <<>>]

\* dtype inference of read_csv: a column of numerals is numeric, any other
\* text makes the column object and leaves every cell a string.
CsvNumericColumn(raw) ==
    /\ \A r \in 1..Len(raw) : raw[r] = <<>> \/ IsNumeralField(raw[r])
    /\ \E r \in 1..Len(raw) : raw[r] # <<>>

CsvCells(raw) ==
    [r \in 1..Len(raw) |->
        IF raw[r] = <<>> THEN NaN
        ELSE IF CsvNumericColumn(raw) THEN Num(NumeralTable[raw[r][1].v])
        ELSE Str(JoinAtoms(raw[r]))]

\* pd.to_datetime(column, errors='coerce'): integers count from the epoch.
CsvDatetimeCells(raw) ==
    [r \in 1..Len(raw) |->
        IF raw[r] = <<>> THEN NaT
        ELSE IF CsvNumericColumn(raw) THEN Ts(EpochInstant)
        ELSE ToDatetimeField(raw[r])]

\* The frame read_csv returns, before the timestamp conversion.
CsvRead(ls) ==
    LET names == MangleDup([j \in 1..Len(CsvFields(ls[1])) |-> JoinAtoms(CsvFields(ls[1])[j])])
        colv == [j \in 1..Len(names) |-> CsvCells(CsvRawColumn(ls, j))]
    IN Frame(names,
             [j \in 1..Len(names) |-> InferDtype(colv[j])],
             [r \in 1..(Len(ls) - 1) |->
                 [c \in Range(names) |-> colv[CHOOSE j \in 1..Len(names) : names[j] = c][r]]])

\* df[name] = cells (appended as the last column when new).
SetColumn(f, name, dtype, cells) ==
    IF HasCol(f, name)
    THEN Frame(f.cols,
               [j \in 1..Len(f.cols) |-> IF f.cols[j] = name THEN dtype ELSE f.dtype[j]],
               [r \in 1..Len(f.rows) |-> [f.rows[r] EXCEPT ![name] = cells[r]]])
    ELSE Frame(Append(f.cols, name), Append(f.dtype, dtype),
               [r \in 1..Len(f.rows) |->
                   [c \in Range(f.cols) \cup {name} |->
                       IF c = name THEN cells[r] ELSE f.rows[r][c]]])

\* df.drop(columns=[name])
KeepCols(f, name) == {j \in 1..Len(f.cols) : f.cols[j] # name}
RECURSIVE PickIdx(_, _, _)
PickIdx(s, keep, i) ==
    IF i > Len(s) THEN <<>>
    ELSE (IF i \in keep THEN <<s[i]>> ELSE <<>>) \o PickIdx(s, keep, i + 1)
DropColumn(f, name) ==
    Frame(PickIdx(f.cols, KeepCols(f, name), 1),
          PickIdx(f.dtype, KeepCols(f, name), 1),
          [r \in 1..Len(f.rows) |->
              [c \in Range(f.cols) \ {name} |-> f.rows[r][c]]])

\* Lines 35-40: the timestamp column.
CsvTimestamps(ls, f) ==
    LET col(name) == CsvDatetimeCells(
                        CsvRawColumn(ls, CHOOSE j \in 1..Len(f.cols) : f.cols[j] = name))
    IN IF HasCol(f, "timestamp")
       THEN SetColumn(f, "timestamp", "datetime", col("timestamp"))
       ELSE IF HasCol(f, "time")
       THEN DropColumn(SetColumn(f, "timestamp", "datetime", col("time")), "time")
       ELSE f

\* The detector: [ok, frame]; ok = FALSE when read_csv raised.
CsvDetector(c) ==
    LET ls == CsvLines(c)
    IN IF ls = <<>> \/ CsvTokenizeError(ls)
       THEN [ok |-> FALSE, frame |-> EmptyFrame]
       ELSE [ok |-> TRUE, frame |-> CsvTimestamps(ls, CsvRead(ls))]


-----------------------------------------------------------------------------
(* Key-value detector: data_processor.py lines 47-129 *)

\* An insertion-ordered dict: the keys in order and the value of each.
EmptyDict == <<>>
DictKeys(d) == [i \in 1..Len(d) |-> d[i].k]
DictHas(d, key) == \E i \in 1..Len(d) : d[i].k = key
DictGet(d, key) == d[CHOOSE i \in 1..Len(d) : d[i].k = key].v
DictSet(d, key, val) ==
    IF DictHas(d, key)
    THEN [i \in 1..Len(d) |-> IF d[i].k = key THEN [k |-> key, v |-> val] ELSE d[i]]
    ELSE Append(d, [k |-> key, v |-> val])

\* Where the text of an atom can end / start a match of the timestamp
\* patterns (re.search is not anchored to token boundaries).
DateTail(a) == ~a.q /\ a.v \in DateShaped
SlashTail(a) == ~a.q /\ a.v \in DOMAIN SlashDateTable
WordTail(a) == ~a.q /\ a.v \in DOMAIN TailTable
TimeHead(a) == a.k = "" /\ a.v \in TimeShaped
DayToken(a) == a.k = "" /\ a.v \in DayDigits

\* Positions at which timestamp_patterns[n] matches, n = 1, 2, 3.
PatternMatches(fl, n) ==
    IF n = 1 THEN {i \in 1..(Len(fl) - 1) :
                     DateTail(fl[i].a) /\ fl[i + 1].sp /\ TimeHead(fl[i + 1].a)}
    ELSE IF n = 2 THEN {i \in 1..(Len(fl) - 2) :
                     /\ WordTail(fl[i].a)
                     /\ fl[i + 1].sp /\ DayToken(fl[i + 1].a)
                     /\ fl[i + 2].sp /\ TimeHead(fl[i + 2].a)}
    ELSE {i \in 1..(Len(fl) - 1) :
                     SlashTail(fl[i].a) /\ fl[i + 1].sp /\ TimeHead(fl[i + 1].a)}

SetMin(S) == CHOOSE x \in S : \A y \in S : x <= y

\* datetime.strptime of the text matched by pattern n at position i, tried
\* with the three formats in turn: NaT stands for "no format fits".
Strptime(fl, n, i) ==
    IF n = 1
    THEN (IF fl[i].a.v \in DOMAIN DateTable /\ fl[i + 1].a.v \in DOMAIN TimeTable
          THEN Ts(Instant(DateTable[fl[i].a.v], TimeTable[fl[i + 1].a.v]))
          ELSE NaT)
    ELSE IF n = 2
    THEN (LET mon == Lower(TailTable[fl[i].a.v])
              day == NumeralTable[fl[i + 1].a.v]
          IN IF mon \in DOMAIN Month1900Start /\ day >= 1 /\ day <= 31
                /\ fl[i + 2].a.v \in DOMAIN TimeTable
             THEN Ts(Instant(Month1900Start[mon] + day - 1, TimeTable[fl[i + 2].a.v]))
             ELSE NaT)
    ELSE (IF fl[i + 1].a.v \in DOMAIN TimeTable
          THEN Ts(Instant(SlashDateTable[fl[i].a.v], TimeTable[fl[i + 1].a.v]))
          ELSE NaT)

\* Lines 63-83: the first pattern that matches decides; NaT = timestamp None.
ExtractTimestamp(line) ==
    LET fl == FlatLine(line)
        first == IF PatternMatches(fl, 1) # {} THEN 1
                 ELSE IF PatternMatches(fl, 2) # {} THEN 2
                 ELSE IF PatternMatches(fl, 3) # {} THEN 3 ELSE 0
    IN IF first = 0 THEN NaT
       ELSE Strptime(fl, first, SetMin(PatternMatches(fl, first)))

\* key.replace('-', '_'): the key in the case it was written in.
NormKeyAsWritten(key) == HyphenToUnderscore(key)

\* key.lower().replace('-', '_')
NormKey(key) == HyphenToUnderscore(Lower(key))

\* Lines 88-93: re.findall(kv_pattern, line), later keys overwrite.
RECURSIVE KvPairs(_, _)
KvPairs(fl, d) ==
    IF fl = <<>> THEN d
    ELSE LET a == Head(fl).a
         IN KvPairs(Tail(fl),
                    IF a.k = "" THEN d ELSE DictSet(d, NormKey(a.k), Str(a.v)))

\* Lines 61-93: line_data of one line.
KvLineData(line) ==
    LET ts == ExtractTimestamp(line)
        d0 == IF ts.t = "ts" THEN DictSet(EmptyDict, "timestamp", ts) ELSE EmptyDict
    IN KvPairs(FlatLine(line), d0)

\* Lines 60-97: data, the non-empty line_data of the lines in order.
RECURSIVE KvData(_)
KvData(ls) ==
    IF ls = <<>> THEN <<>>
    ELSE LET d == KvLineData(Head(ls))
         IN (IF d = EmptyDict THEN <<>> ELSE <<d>>) \o KvData(Tail(ls))

\* Column names of pd.DataFrame(list of dicts): first appearance order.
RECURSIVE AppendNew(_, _)
AppendNew(cols, ks) ==
    IF ks = <<>> THEN cols
    ELSE AppendNew(IF Head(ks) \in Range(cols) THEN cols ELSE Append(cols, Head(ks)),
                   Tail(ks))
RECURSIVE DictColumns(_)
DictColumns(ds) ==
    IF ds = <<>> THEN <<>>
    ELSE AppendNew(DictColumns(Front(ds)), DictKeys(Last(ds)))

\* pd.DataFrame(data): missing keys become NaN (NaT in a datetime column).
FrameOfDicts(ds) ==
    LET cols == DictColumns(ds)
        raw(c) == [r \in 1..Len(ds) |-> IF DictHas(ds[r], c) THEN DictGet(ds[r], c) ELSE NaN]
        dt(c) == InferDtype(raw(c))
    IN Frame(cols,
             [j \in 1..Len(cols) |-> dt(cols[j])],
             [r \in 1..Len(ds) |->
                 [c \in Range(cols) |->
                     IF dt(c) = "datetime" /\ raw(c)[r].t = "nan" THEN NaT
                     ELSE raw(c)[r]]])

\* pd.to_numeric(value, errors='coerce')
ToNumeric(x) ==
    IF x.t = "num" THEN x
    ELSE IF x.t = "str" /\ IsNumeral(x.s) THEN Num(NumeralTable[x.s])
    ELSE NaN

\* df[col] = pd.to_numeric(df[col], errors='coerce')
CoerceNumeric(f, c) ==
    IF ~HasCol(f, c) THEN f
    ELSE LET cells == [r \in 1..Len(f.rows) |-> ToNumeric(f.rows[r][c])]
         IN SetColumn(f, c, IF \E r \in 1..Len(cells) : IsNull(cells[r])
                               THEN "float" ELSE "int", cells)

RECURSIVE CoerceAll(_, _)
CoerceAll(f, cs) ==
    IF cs = <<>> THEN f ELSE CoerceAll(CoerceNumeric(f, Head(cs)), Tail(cs))

\* Lines 113-118, in the order the dict lists them.
col_mapping ==
    << <<"source_ip", "src_ip">>, <<"destination_ip", "dst_ip">>,
       <<"source_port", "src_port">>, <<"destination_port", "dst_port">> >>

\* Lines 120-123: a synonym is renamed only when the canonical name is absent.
RenameOne(f, old_col, new_col) ==
    IF HasCol(f, old_col) /\ ~HasCol(f, new_col)
    THEN DropColumn(SetColumn(f, new_col, DtypeOf(f, old_col), Column(f, old_col)), old_col)
    ELSE f

RECURSIVE MergeSynonyms(_, _)
MergeSynonyms(f, m) ==
    IF m = <<>> THEN f
    ELSE MergeSynonyms(RenameOne(f, Head(m)[1], Head(m)[2]), Tail(m))

KvNumericColumns == <<"bytes", "src_port", "dst_port", "source_port", "destination_port">>

\* The detector over the filtered lines: ok = FALSE when data is empty.
KvDetector(ls) ==
    LET ds == KvData(ls)
    IN IF ds = <<>> THEN [ok |-> FALSE, frame |-> EmptyFrame]
       ELSE [ok |-> TRUE,
             frame |-> MergeSynonyms(CoerceAll(FrameOfDicts(ds), KvNumericColumns),
                                     col_mapping)]


-----------------------------------------------------------------------------
(* Whitespace-columnar detector: data_processor.py lines 132-182 *)

HeaderScanLines == 10

\* A part of re.split(r'\s+', line.strip()): the atoms of a word and the
\* commas between them.
RECURSIVE WordText(_)
WordText(w) ==
    IF Len(w) = 1 THEN AtomText(w[1])
    ELSE AtomText(w[1]) \o "," \o WordText(Tail(w))

\* The pattern of line 140 without its character classes: any part passes.
IsIdentPartLoose(w) == Len(w) = 1 /\ w[1].k = ""

\* Line 140: re.match(r'^[a-zA-Z][a-zA-Z0-9_-]*$', part)
IsIdentPart(w) == Len(w) = 1 /\ w[1].k = "" /\ w[1].v \in IdentWords

\* Lines 134-141: the lower-cased bare identifiers of the first lines.
PotentialHeaders(ls) ==
    UNION {{Lower(w[1].v) : w \in {x \in Range(ls[i]) : IsIdentPart(x)}} :
              i \in 1..Min(Len(ls), HeaderScanLines)}

\* pd.to_datetime(' '.join(parts[:2]), errors='raise'); NaT = it raised.
\* In the vocabulary a line that reaches this detector starts with a date
\* only when the date is its single token or a time follows it.
WsToDatetime(line) ==
    LET two == SubSeq(line, 1, Min(2, Len(line)))
        plain(w) == Len(w) = 1 /\ w[1].k = ""
    IN IF Len(two) = 2 /\ plain(two[1]) /\ plain(two[2])
          /\ two[1][1].v \in DOMAIN DateTable /\ two[2][1].v \in DOMAIN TimeTable
       THEN Ts(Instant(DateTable[two[1][1].v], TimeTable[two[2][1].v]))
       ELSE IF Len(two) = 1 /\ plain(two[1]) /\ two[1][1].v \in DOMAIN DateTable
       THEN Ts(Instant(DateTable[two[1][1].v], 0))
       ELSE NaT

\* Lines 162-166: consecutive parts paired as key, value.
RECURSIVE WsPairs(_, _)
WsPairs(parts, d) ==
    IF Len(parts) < 2 THEN d
    ELSE WsPairs(SubSeq(parts, 3, Len(parts)),
                 DictSet(d, StripColon(HyphenToUnderscore(Lower(WordText(parts[1])))),
                         Str(WordText(parts[2]))))

\* Lines 148-166: line_data of one line.
WsLineData(line) ==
    LET ts == WsToDatetime(line)
    IN IF ts.t = "ts"
       THEN WsPairs(SubSeq(line, 3, Len(line)), DictSet(EmptyDict, "timestamp", ts))
       ELSE WsPairs(line, EmptyDict)

RECURSIVE WsData(_)
WsData(ls) ==
    IF ls = <<>> THEN <<>>
    ELSE LET d == WsLineData(Head(ls))
         IN (IF d = EmptyDict THEN <<>> ELSE <<d>>) \o WsData(Tail(ls))

\* Lines 176-178: the columns of the frame that are in the list.
WsNumericColumns == <<"bytes", "src_port", "dst_port">>

WsDetector(ls) ==
    IF PotentialHeaders(ls) = {} THEN [ok |-> FALSE, frame |-> EmptyFrame]
    ELSE LET ds == WsData(ls)
         IN IF ds = <<>> THEN [ok |-> FALSE, frame |-> EmptyFrame]
            ELSE [ok |-> TRUE, frame |-> CoerceAll(FrameOfDicts(ds), WsNumericColumns)]

-----------------------------------------------------------------------------
(* parse_mikrotik_logs: data_processor.py lines 9-186 *)

MsgNoData == "No valid data found in the log file"
MsgKvFailed == "Failed to parse key-value format"
MsgUnknown == "Could not determine the log format"

\* What the call returns: ret is "None" or "DataFrame", by names the branch
\* that returned, logged lists the logging.error messages of the call.
Returned(ret, by, frame, logged) ==
    [ret |-> ret, by |-> by, frame |-> frame, logged |-> logged]

NoDataResult == Returned("None", "nodata", EmptyFrame, <<MsgNoData>>)
\* The final failure logging the message of the no-data case.
ParseFailureAsNoData == Returned("None", "fail", EmptyFrame, <<MsgNoData>>)
ParseFailureResult == Returned("None", "fail", EmptyFrame, <<MsgKvFailed, MsgUnknown>>)

\* Lines 31-44: returns whatever read_csv produced unless it raised.
CsvReturns(c) == CsvDetector(c).ok

\* Lines 99-125.
KvReturns(ls) == KvDetector(ls).ok

parse_mikrotik_logs(c) ==
    LET lines == FilterLines(c)
    IN IF lines = <<>> THEN NoDataResult
       ELSE IF CsvReturns(c) THEN Returned("DataFrame", "csv", CsvDetector(c).frame, <<>>)
       ELSE IF KvReturns(lines) THEN Returned("DataFrame", "kv", KvDetector(lines).frame, <<>>)
       ELSE IF WsDetector(lines).ok
            THEN Returned("DataFrame", "ws", WsDetector(lines).frame, <<MsgKvFailed>>)
       ELSE ParseFailureResult


-----------------------------------------------------------------------------
(* process_traffic_data: data_processor.py lines 189-263 *)

TopN == 10

\* Order of the group keys (groupby sorts its keys): numbers by value,
\* texts by the collation table.
\* The texts that occur as group keys, in the order Python compares strings.
Collation ==
    << "!!",
       "!!!",
       "!!! ??",
       "#note",
       "10.0.0.1",
       "10.0.0.10",
       "10.0.0.11",
       "10.0.0.12",
       "10.0.0.13",
       "10.0.0.14",
       "10.0.0.2",
       "10.0.0.3",
       "10.0.0.4",
       "10.0.0.5",
       "10.0.0.6",
       "10.0.0.7",
       "10.0.0.8",
       "10.0.0.9",
       "1240",
       "192.168.1.10",
       "198.51.100.2",
       "2023-10-05 08:23:45",
       "2023-10-05 08:23:45 !!!",
       "2023-10-05 08:23:45 src-ip=192.168.1.10 dst-ip=203.0.113.5 protocol=TCP src-port=54321 dst-port=443 bytes=1240",
       "2023-10-06 09:10:00",
       "2023-10-06 09:10:00 source_ip=203.0.113.5 SRC-IP=192.168.1.10 bytes=not_a_number",
       "203.0.113.5",
       "??",
       "??,!!",
       "Bytes",
       "Friday",
       "Monday",
       "Saturday",
       "Sunday",
       "TCP",
       "Thursday",
       "Tuesday",
       "UDP",
       "Wednesday",
       "a,b",
       "bytes",
       "bytes 1240 source_ip 192.168.1.10",
       "bytes not_a_number src_ip 203.0.113.5",
       "not_a_number",
       "source_ip",
       "src_ip",
       "time",
       "time,source_ip,src_ip,Bytes",
       "timestamp",
       "timestamp,src_ip,bytes" >>
TextRank(s) == CHOOSE i \in 1..Len(Collation) : Collation[i] = s
KeyRank(x) == IF x.t = "str" THEN TextRank(x.s) ELSE x.n

RECURSIVE SortedKeys(_)
SortedKeys(S) ==
    IF S = {} THEN <<>>
    ELSE LET m == CHOOSE x \in S : \A y \in S : KeyRank(x) <= KeyRank(y)
         IN <<m>> \o SortedKeys(S \ {m})

RECURSIVE SumSeq(_)
SumSeq(s) == IF s = <<>> THEN 0 ELSE Head(s) + SumSeq(Tail(s))

\* Series.sum() / Series.count() of a numeric column: nulls are skipped.
NumOrZero(x) == IF x.t = "num" THEN x.n ELSE 0
SumCells(cells) == SumSeq([i \in 1..Len(cells) |-> NumOrZero(cells[i])])
CountCells(cells) == Cardinality({i \in 1..Len(cells) : ~IsNull(cells[i])})

RowsWhere(f, c, key) == {r \in 1..Len(f.rows) : f.rows[r][c] = key}
GroupKeys(f, c) == SortedKeys({f.rows[r][c] : r \in 1..Len(f.rows)} \ {NaN, NaT})

\* df.groupby(c).size(): one entry per non-null key, keys ascending.
GroupSize(f, c) ==
    LET ks == GroupKeys(f, c)
    IN [i \in 1..Len(ks) |-> [key |-> ks[i], val |-> Cardinality(RowsWhere(f, c, ks[i]))]]

\* df.groupby(c)[v].sum()
GroupSum(f, c, v) ==
    LET ks == GroupKeys(f, c)
    IN [i \in 1..Len(ks) |->
          [key |-> ks[i],
           val |-> SumSeq([r \in 1..Len(f.rows) |->
                             IF f.rows[r][c] = ks[i] THEN NumOrZero(f.rows[r][v]) ELSE 0])]]

Reverse(s) == [i \in 1..Len(s) |-> s[Len(s) + 1 - i]]

\* Stable insertion of e into a series that is descending by val.
RECURSIVE InsertDesc(_, _)
InsertDesc(s, e) ==
    IF s = <<>> THEN <<e>>
    ELSE IF Head(s).val >= e.val THEN <<Head(s)>> \o InsertDesc(Tail(s), e)
    ELSE <<e>> \o s

RECURSIVE StableDesc(_)
StableDesc(s) == IF s = <<>> THEN <<>> ELSE InsertDesc(StableDesc(Front(s)), Last(s))

\* The orders an equal-valued run can come out in: sort_values uses the
\* default kind 'quicksort', which is not a stable sort.
TieOrders == {"kept", "reversed"}

\* series.sort_values(ascending=False)
SortValuesDesc(s, ties) ==
    IF ties = "kept" THEN StableDesc(s) ELSE StableDesc(Reverse(s))

\* head(n) that does not cut the series.
HeadWhole(s, n) == s

\* series.head(n)
Head_(s, n) == SubSeq(s, 1, Min(n, Len(s)))

TopBySize(f, c, ties) == Head_(SortValuesDesc(GroupSize(f, c), ties), TopN)
TopBySum(f, c, v, ties) == Head_(SortValuesDesc(GroupSum(f, c, v), ties), TopN)

\* The non-null values of a column in order of first appearance.
RECURSIVE Distinct(_)
Distinct(cells) ==
    IF cells = <<>> THEN <<>>
    ELSE LET d == Distinct(Front(cells))
         IN IF IsNull(Last(cells)) \/ Last(cells) \in Range(d) THEN d
            ELSE Append(d, Last(cells))

\* Series.value_counts(): counted in order of appearance, then sorted
\* by descending count.
ValueCounts(f, c, ties) ==
    LET ks == Distinct(Column(f, c))
    IN SortValuesDesc([i \in 1..Len(ks) |->
                         [key |-> ks[i], val |-> Cardinality(RowsWhere(f, c, ks[i]))]],
                      ties)

DayNames == <<"Monday", "Tuesday", "Wednesday", "Thursday", "Friday", "Saturday", "Sunday">>

\* timestamp.dt.hour and timestamp.dt.day_name() of one cell.
HourOf(x) == IF x.t = "ts" THEN Num((x.n % 86400) \div 3600) ELSE NaN
DayNameOf(x) == IF x.t = "ts" THEN Str(DayNames[((x.n \div 86400) % 7) + 1]) ELSE NaN

\* Lines 241 and 249: the two columns the function writes into its argument.
WithHour(f) ==
    LET cells == [r \in 1..Len(f.rows) |-> HourOf(f.rows[r]["timestamp"])]
    IN SetColumn(f, "hour", IF \E r \in 1..Len(cells) : IsNull(cells[r]) THEN "float" ELSE "int",
                 cells)
WithDayOfWeek(f) ==
    SetColumn(f, "day_of_week", "object",
              [r \in 1..Len(f.rows) |-> DayNameOf(f.rows[r]["timestamp"])])

\* The frame the caller's reference holds after the call.
ArgumentAfter(f) == WithDayOfWeek(WithHour(f))

\* Lines 205-211 raise TypeError when the bytes column holds text;
\* lines 235-241 raise when the timestamp column is not datetime64.
BytesRaises(f) ==
    HasCol(f, "bytes") /\ \E r \in 1..Len(f.rows) : f.rows[r]["bytes"].t \in {"str", "ts"}
TimestampRaises(f) ==
    HasCol(f, "timestamp") /\ DtypeOf(f, "timestamp") # "datetime"

MinOf(S) == CHOOSE x \in S : \A y \in S : x <= y
MaxOf(S) == CHOOSE x \in S : \A y \in S : x >= y

NoSeries == <<>>
\* A quotient num / den the function computes in floating point.
Ratio(num, den) == [num |-> num, den |-> den]

\* The bundle: present lists the keys of the dict, the other fields hold
\* their values (a default where the key is absent).
process_traffic_data(df_, ties) ==
    LET has(c) == HasCol(df_, c)
        hb == has("bytes")
        g == IF has("timestamp") THEN ArgumentAfter(df_) ELSE df_
        stamps == IF has("timestamp")
                  THEN {df_.rows[r]["timestamp"].n :
                          r \in {q \in 1..Len(df_.rows) : df_.rows[q]["timestamp"].t = "ts"}}
                  ELSE {}
        total == IF hb THEN SumCells(Column(df_, "bytes")) ELSE 0
    IN [ present |->
           {"total_records"}
           \cup (IF hb THEN {"total_bytes", "total_mb", "total_gb", "avg_bytes_per_record"} ELSE {})
           \cup (IF has("src_ip") THEN {"unique_sources", "top_sources"} ELSE {})
           \cup (IF has("src_ip") /\ hb THEN {"top_sources_by_traffic"} ELSE {})
           \cup (IF has("dst_ip") THEN {"unique_destinations", "top_destinations"} ELSE {})
           \cup (IF has("dst_ip") /\ hb THEN {"top_destinations_by_traffic"} ELSE {})
           \cup (IF has("protocol") THEN {"protocol_distribution"} ELSE {})
           \cup (IF has("timestamp")
                 THEN {"timespan", "connections_by_hour", "connections_by_day"} ELSE {})
           \cup (IF has("timestamp") /\ hb THEN {"traffic_by_hour", "traffic_by_day"} ELSE {})
           \cup (IF has("dst_port") THEN {"top_destination_ports"} ELSE {})
           \cup (IF has("dst_port") /\ hb THEN {"top_ports_by_traffic"} ELSE {}),
         total_records |-> Len(df_.rows),
         total_bytes |-> total,
         total_mb |-> Ratio(total, 1024 * 1024),
         total_gb |-> Ratio(total, 1024 * 1024 * 1024),
         avg_bytes_per_record |->
           Ratio(total, IF hb THEN CountCells(Column(df_, "bytes")) ELSE 0),
         unique_sources |-> IF has("src_ip") THEN Len(GroupKeys(df_, "src_ip")) ELSE 0,
         top_sources |-> IF has("src_ip") THEN TopBySize(df_, "src_ip", ties) ELSE NoSeries,
         top_sources_by_traffic |->
           IF has("src_ip") /\ hb THEN TopBySum(df_, "src_ip", "bytes", ties) ELSE NoSeries,
         unique_destinations |-> IF has("dst_ip") THEN Len(GroupKeys(df_, "dst_ip")) ELSE 0,
         top_destinations |-> IF has("dst_ip") THEN TopBySize(df_, "dst_ip", ties) ELSE NoSeries,
         top_destinations_by_traffic |->
           IF has("dst_ip") /\ hb THEN TopBySum(df_, "dst_ip", "bytes", ties) ELSE NoSeries,
         protocol_distribution |->
           IF has("protocol") THEN ValueCounts(df_, "protocol", ties) ELSE NoSeries,
         timespan |->
           IF stamps = {} THEN [start |-> NaT, end |-> NaT, seconds |-> 0]
           ELSE [start |-> Ts(MinOf(stamps)), end |-> Ts(MaxOf(stamps)),
                 seconds |-> MaxOf(stamps) - MinOf(stamps)],
         traffic_by_hour |->
           IF has("timestamp") /\ hb THEN GroupSum(g, "hour", "bytes") ELSE NoSeries,
         connections_by_hour |-> IF has("timestamp") THEN GroupSize(g, "hour") ELSE NoSeries,
         traffic_by_day |->
           IF has("timestamp") /\ hb THEN GroupSum(g, "day_of_week", "bytes") ELSE NoSeries,
         connections_by_day |->
           IF has("timestamp") THEN GroupSize(g, "day_of_week") ELSE NoSeries,
         top_destination_ports |->
           IF has("dst_port") THEN TopBySize(df_, "dst_port", ties) ELSE NoSeries,
         top_ports_by_traffic |->
           IF has("dst_port") /\ hb THEN TopBySum(df_, "dst_port", "bytes", ties) ELSE NoSeries ]

\* The call as the caller sees it: whether it raised, the bundle it
\* returned, and the frame its argument refers to afterwards.
CallProcess(f, ties) ==
    [raised |-> BytesRaises(f) \/ TimestampRaises(f),
     bundle |-> process_traffic_data(
                  IF BytesRaises(f) \/ TimestampRaises(f) THEN EmptyFrame ELSE f, ties),
     after |-> IF HasCol(f, "timestamp") /\ ~(BytesRaises(f) \/ TimestampRaises(f))
               THEN ArgumentAfter(f) ELSE f]


-----------------------------------------------------------------------------
(* Inputs: the lines the uploaded files are made of *)

LineBlank == <<>>
LineComment == << W(P("#note")) >>
\* The sample of app.py line 514.
LineSample ==
    << W(P("2023-10-05")), W(P("08:23:45")), W(KV("src-ip", "192.168.1.10")),
       W(KV("dst-ip", "203.0.113.5")), W(KV("protocol", "TCP")),
       W(KV("src-port", "54321")), W(KV("dst-port", "443")), W(KV("bytes", "1240")) >>
LineKvSynonym ==
    << W(P("2023-10-06")), W(P("09:10:00")), W(KV("source_ip", "203.0.113.5")),
       W(KV("SRC-IP", "192.168.1.10")), W(KV("bytes", "not_a_number")) >>
LineHeader == << <<P("timestamp"), P("src_ip"), P("bytes")>> >>
LineHeaderSynonym == << <<P("time"), P("source_ip"), P("src_ip"), P("Bytes")>> >>
LineRow == << W(P("2023-10-05")), <<P("08:23:45"), P("192.168.1.10"), P("1240")>> >>
LineRowText == << W(P("2023-10-06")), <<P("09:10:00"), P("203.0.113.5"), P("not_a_number")>> >>
LineJunk == << W(P("!!!")), W(P("??")) >>
LineJunkComma == << <<P("??"), P("!!")>> >>
LineStampJunk == << W(P("2023-10-05")), W(P("08:23:45")), W(P("!!!")) >>
LineColumns == << W(P("bytes")), W(P("1240")), W(P("source_ip")), W(P("192.168.1.10")) >>
LineColumnsText == << W(P("bytes")), W(P("not_a_number")), W(P("src_ip")), W(P("203.0.113.5")) >>

LineVocab ==
    { LineBlank, LineComment, LineSample, LineKvSynonym, LineHeader, LineHeaderSynonym,
      LineRow, LineRowText, LineJunk, LineJunkComma, LineStampJunk, LineColumns,
      LineColumnsText }

\* Files of at most MaxLines lines.
Contents == UNION {[1..n -> LineVocab] : n \in 0..MaxLines}

-----------------------------------------------------------------------------
(* The pipeline on one file: parse, then aggregate what was parsed *)

NotCalled == Returned("None", "notcalled", EmptyFrame, <<>>)
NoCall == [raised |-> FALSE, bundle |-> process_traffic_data(EmptyFrame, "kept"),
           after |-> EmptyFrame]

\* df.empty
IsEmpty(f) == f.rows = <<>> \/ f.cols = <<>>

\* Nothing extracted from a line and no chart drawn yet.
NoChart == [raised |-> FALSE, rule |-> "", bandwidth_data |-> <<>>, connections_data |-> <<>>]
NothingDrawn == line_data = <<>> /\ chart = NoChart

SessionIdle ==
    /\ heap = <<>>
    /\ data = 0
    /\ filtered_data = 0
    /\ file_uploaded = FALSE
    /\ start_date = None
    /\ end_date = None

InitParse ==
    /\ content \in Contents
    /\ pc = "input"
    /\ df = NotCalled
    /\ stats = NoCall
    /\ arg = EmptyFrame
    /\ SessionIdle
    /\ NothingDrawn

\* df = parse_mikrotik_logs(content)
ParseStep ==
    /\ pc = "input"
    /\ df' = parse_mikrotik_logs(content)
    /\ pc' = "parsed"
    /\ UNCHANGED <<content, stats, arg, heap, data, filtered_data, file_uploaded,
                   start_date, end_date, line_data, chart>>

\* traffic_stats = process_traffic_data(df), for a frame the app accepts
\* (app.py line 60).
AggregateStep ==
    /\ pc = "parsed"
    /\ df.ret = "DataFrame"
    /\ ~IsEmpty(df.frame)
    /\ \E ties \in TieOrders :
          \E call \in {CallProcess(df.frame, ties)} :
              /\ stats' = call
              /\ arg' = call.after
    /\ pc' = "aggregated"
    /\ UNCHANGED <<content, df, heap, data, filtered_data, file_uploaded,
                   start_date, end_date, line_data, chart>>

NextParse == ParseStep \/ AggregateStep

SpecParse == InitParse /\ [][NextParse]_vars


-----------------------------------------------------------------------------
(* Claims about the parsing pipeline and the aggregation (SpecParse) *)

Parsed == pc # "input"
Lines == FilterLines(content)

\* Records each detector yields on the input, 0 when it fails.
CsvYield == IF CsvDetector(content).ok THEN Len(CsvDetector(content).frame.rows) ELSE 0
KvYield == IF KvDetector(Lines).ok THEN Len(KvDetector(Lines).frame.rows) ELSE 0
WsYield == IF WsDetector(Lines).ok THEN Len(WsDetector(Lines).frame.rows) ELSE 0
FirstYielding ==
    IF CsvYield >= 1 THEN "csv" ELSE IF KvYield >= 1 THEN "kv"
    ELSE IF WsYield >= 1 THEN "ws" ELSE "none"

\* C1: the detectors are tried in the order delimited-table, key-value,
\* whitespace-columnar; the result returned is that of the first detector
\* in that order that yields at least one record, and a detector that
\* yields no record never wins.
C1_FirstYieldingDetectorWins ==
    (Parsed /\ Lines # <<>>) =>
        /\ df.ret = "DataFrame" => (df.by = FirstYielding /\ Len(df.frame.rows) >= 1)
        /\ FirstYielding # "none" => (df.ret = "DataFrame" /\ df.by = FirstYielding)

CellIs(f, r, c, x) == HasCol(f, c) /\ f.rows[r][c] = x

\* C2: the sample line of app.py parses to exactly one record with
\* timestamp 2023-10-05 08:23:45, src_ip 192.168.1.10, dst_ip 203.0.113.5,
\* protocol TCP and numeric src_port 54321, dst_port 443, bytes 1240.
C2_SampleLineParses ==
    (Parsed /\ content = <<LineSample>>) =>
        /\ df.ret = "DataFrame"
        /\ Len(df.frame.rows) = 1
        /\ CellIs(df.frame, 1, "timestamp", Ts(Instant(3, 30225)))
        /\ CellIs(df.frame, 1, "src_ip", Str("192.168.1.10"))
        /\ CellIs(df.frame, 1, "dst_ip", Str("203.0.113.5"))
        /\ CellIs(df.frame, 1, "protocol", Str("TCP"))
        /\ CellIs(df.frame, 1, "src_port", Num(54321))
        /\ CellIs(df.frame, 1, "dst_port", Num(443))
        /\ CellIs(df.frame, 1, "bytes", Num(1240))

\* What the caller of parse_mikrotik_logs receives.
Seen(r) == [ret |-> r.ret, frame |-> r.frame]

HasKvToken(line) == \E i \in 1..Len(line) : \E j \in 1..Len(line[i]) : line[i][j].k # ""
BareIdentifier(w) == Len(w) = 1 /\ w[1].k = "" /\ w[1].v \in IdentWords
HasIdentToken(line) == \E i \in 1..Len(line) : BareIdentifier(line[i])
Garbage ==
    /\ Lines # <<>>
    /\ \A i \in 1..Len(Lines) : ~HasKvToken(Lines[i]) /\ ~HasIdentToken(Lines[i])
    /\ ~CsvDetector(content).ok

\* C4 as stated: an input of garbage lines only (no key=value token, no
\* bare identifier, not a valid delimited table) returns a failure, never
\* a record set.
C4_GarbageFails == (Parsed /\ Garbage) => df.ret = "None"

\* C4 amended: ... and in which no line holds a timestamp the key-value
\* detector extracts; a garbage line with such a timestamp yields a record
\* holding the timestamp alone.
GarbageWithoutStamp ==
    Garbage /\ \A i \in 1..Len(Lines) : ExtractTimestamp(Lines[i]) = NaT
C4_GarbageWithoutStampFails == (Parsed /\ GarbageWithoutStamp) => df.ret = "None"

C4_Witness == Parsed /\ GarbageWithoutStamp /\ df.by = "fail"

Synonyms == {"source_ip", "destination_ip", "source_port", "destination_port"}

\* C5: for a valid delimited table with a header row the delimited-table
\* detector returns one record per data row, every column name is
\* lower-case, and source_ip never coexists with src_ip.
C5_TableNormalized ==
    (Parsed /\ df.by = "csv") =>
        /\ Len(df.frame.rows) = Len(CsvLines(content)) - 1
        /\ \A c \in Range(df.frame.cols) : Lower(c) = c
        /\ ~(HasCol(df.frame, "source_ip") /\ HasCol(df.frame, "src_ip"))

\* C6: no returned record set has a column source_ip, destination_ip,
\* source_port or destination_port, whichever detector produced it.
C6_NoSynonymColumns ==
    (Parsed /\ df.ret = "DataFrame") => Range(df.frame.cols) \cap Synonyms = {}

\* C7: a record whose bytes value is not a number is kept with bytes null,
\* is counted in total_records and adds nothing to total_bytes; neither
\* the parse nor the aggregation aborts.
C7_BadBytesBecomeNull ==
    /\ (Parsed /\ df.ret = "DataFrame" /\ HasCol(df.frame, "bytes")) =>
          \A r \in 1..Len(df.frame.rows) : df.frame.rows[r]["bytes"].t \in {"num", "nan"}
    /\ pc = "aggregated" =>
          /\ ~stats.raised
          /\ stats.bundle.total_records = Len(df.frame.rows)
          /\ HasCol(df.frame, "bytes") =>
                stats.bundle.total_bytes = SumCells(Column(df.frame, "bytes"))

\* C8: process_traffic_data leaves the record set passed to it with the
\* columns and rows it had before the call.
C8_ArgumentUnchanged == pc = "aggregated" => arg = df.frame


-----------------------------------------------------------------------------
(* The session: app.py.  Streamlit runs the script from top to bottom on   *)
(* every interaction; one script run is one action.  Frames are objects:   *)
(* heap holds them, data and filtered_data refer to them (0 is None).      *)

MaxDay == 4
Days == 3..MaxDay

LineRowSmall == << W(P("2023-10-06")), <<P("09:10:00"), P("203.0.113.5"), P("64")>> >>

FileTable == <<LineHeader, LineRow, LineRowSmall>>
FileTableText == <<LineHeader, LineRow, LineRowText>>
FileKv == <<LineSample, LineSample, LineJunkComma>>
FileKvSynonym == <<LineSample, LineKvSynonym, LineJunkComma>>
FileColumns == <<LineColumns, LineColumnsText, LineJunkComma>>
FileGarbage == <<LineJunk, LineJunk, LineJunkComma>>
FileSampleOnly == <<LineSample>>
FileNoData == <<LineComment>>
\* A key=value line without a timestamp after one with a timestamp.
LineKvNoStamp ==
    << W(KV("src-ip", "203.0.113.5")), W(KV("protocol", "UDP")), W(KV("bytes", "64")) >>
FileKvNoStamp == <<LineSample, LineKvNoStamp, LineJunkComma>>
\* A delimited table with a header row and no data row.
FileHeaderOnly == <<LineHeader>>

SessionContents ==
    { FileTable, FileTableText, FileKv, FileKvSynonym, FileColumns, FileGarbage,
      FileSampleOnly, FileNoData, FileKvNoStamp, FileHeaderOnly }

\* st.file_uploader: no file, the text of the uploaded file, or a file
\* whose bytes are not UTF-8 (decode raises at line 57).
NoFile == [file |-> FALSE, c |-> <<>>, decodes |-> TRUE]
Undecodable == [file |-> TRUE, c |-> <<>>, decodes |-> FALSE]
Uploads ==
    {NoFile, Undecodable}
        \cup {[file |-> TRUE, c |-> c, decodes |-> TRUE] : c \in SessionContents}

\* The text typed into "Filter by IP" and the texts it is found in
\* (str.contains).
IpFilters == {"", "192.168", "203.0"}
ContainsTable ==
    { <<"192.168.1.10", "192.168">>, <<"203.0.113.5", "203.0">>,
      <<"bytes 1240 source_ip 192.168.1.10", "192.168">>,
      <<"bytes not_a_number src_ip 203.0.113.5", "203.0">> }
Contains(x, pat) == x.t = "str" /\ <<x.s, pat>> \in ContainsTable

ProtocolChoices == {"All", "TCP", "UDP"}

\* An assignment without .copy(): the same object under a second reference.
CopyAlias(h, id) == [heap |-> h, id |-> id]

\* df.copy(): a new object with the same columns and rows.
Copy(h, id) == [heap |-> Append(h, h[id]), id |-> Len(h) + 1]

\* frame[mask]: a new frame of the rows the mask keeps, in order.
RECURSIVE SelectRows(_, _, _)
SelectRows(rows, keep, i) ==
    IF i > Len(rows) THEN <<>>
    ELSE (IF i \in keep THEN <<rows[i]>> ELSE <<>>) \o SelectRows(rows, keep, i + 1)
Mask(f, keep) == Frame(f.cols, f.dtype, SelectRows(f.rows, keep, 1))

\* Series.min() / Series.max() of a datetime column (NaT when empty).
StampsOf(f) == {f.rows[r]["timestamp"].n :
                  r \in {q \in 1..Len(f.rows) : f.rows[q]["timestamp"].t = "ts"}}
MinStamp(f) == IF StampsOf(f) = {} THEN NaT ELSE Ts(MinOf(StampsOf(f)))
MaxStamp(f) == IF StampsOf(f) = {} THEN NaT ELSE Ts(MaxOf(StampsOf(f)))

\* The session state a script run works on; aborted: an exception ended
\* the run (what was assigned before stays assigned).
Session ==
    [heap |-> heap, data |-> data, filtered_data |-> filtered_data,
     file_uploaded |-> file_uploaded, start_date |-> start_date, end_date |-> end_date,
     content |-> content, df |-> df, stats |-> stats, arg |-> arg, aborted |-> FALSE]

\* parse_mikrotik_logs on each file that can be uploaded.
ParsedFile == [c \in SessionContents |-> parse_mikrotik_logs(c)]

\* app.py lines 61-68: the parser's frame r.frame, the object d, is accepted
\* and cp is its copy.
StoreUpload(S, c, r, d, cp) ==
    [S EXCEPT !.heap = cp.heap, !.data = d, !.filtered_data = cp.id,
              !.file_uploaded = TRUE, !.df = r, !.content = c,
              !.start_date = IF HasCol(r.frame, "timestamp")
                                /\ DtypeOf(r.frame, "timestamp") = "datetime"
                             THEN MinStamp(r.frame) ELSE @,
              !.end_date = IF HasCol(r.frame, "timestamp")
                              /\ DtypeOf(r.frame, "timestamp") = "datetime"
                           THEN MaxStamp(r.frame) ELSE @]

\* An upload block that forgets the loaded file when the parse fails.
AcceptUploadOrClear(S, c, r) ==
    IF r.ret = "DataFrame" /\ ~IsEmpty(r.frame)
    THEN StoreUpload(S, c, r, Len(S.heap) + 1,
                     Copy(Append(S.heap, r.frame), Len(S.heap) + 1))
    ELSE [S EXCEPT !.df = r, !.data = 0, !.filtered_data = 0, !.file_uploaded = FALSE]

\* app.py lines 58-74: df is the parser's result r for the text c.
AcceptUpload(S, c, r) ==
    IF r.ret = "DataFrame" /\ ~IsEmpty(r.frame)
    THEN StoreUpload(S, c, r, Len(S.heap) + 1,
                     Copy(Append(S.heap, r.frame), Len(S.heap) + 1))
    ELSE [S EXCEPT !.df = r]

\* app.py lines 54-77; the except clause of lines 75-77 reports a decode
\* error and assigns nothing.
UploadBlock(S, up) ==
    IF ~up.file \/ ~up.decodes THEN S ELSE AcceptUpload(S, up.c, ParsedFile[up.c])

\* app.py lines 102-106: sorted() raises on a protocol column that mixes
\* text and NaN.
ProtocolListRaises(f) ==
    /\ HasCol(f, "protocol")
    /\ \E r \in 1..Len(f.rows) : IsNull(f.rows[r]["protocol"])
    /\ \E r \in 1..Len(f.rows) : ~IsNull(f.rows[r]["protocol"])

WidgetsBlock(S) ==
    IF S.aborted \/ ~S.file_uploaded THEN S
    ELSE IF ProtocolListRaises(S.heap[S.data]) THEN [S EXCEPT !.aborted = TRUE]
    ELSE S

\* app.py lines 114-120.
DateMask(f, sd, ed) ==
    {r \in 1..Len(f.rows) :
        /\ f.rows[r]["timestamp"].t = "ts"
        /\ f.rows[r]["timestamp"].n >= Instant(sd, 0)
        /\ f.rows[r]["timestamp"].n <= Instant(ed, 86399)}
\* app.py lines 123-129.
IpMask(f, ipf) ==
    {r \in 1..Len(f.rows) :
        \/ HasCol(f, "src_ip") /\ Contains(f.rows[r]["src_ip"], ipf)
        \/ HasCol(f, "dst_ip") /\ Contains(f.rows[r]["dst_ip"], ipf)}
\* app.py lines 132-133.
ProtocolMask(f, pf) == {r \in 1..Len(f.rows) : f.rows[r]["protocol"] = Str(pf)}

DateFilterRaises(f) == HasCol(f, "timestamp") /\ DtypeOf(f, "timestamp") # "datetime"
IpFilterRaises(f, ipf) ==
    /\ ipf # ""
    /\ \/ HasCol(f, "src_ip") /\ DtypeOf(f, "src_ip") # "object"
       \/ HasCol(f, "dst_ip") /\ DtypeOf(f, "dst_ip") # "object"

\* The three filters in turn; each one that applies builds a new frame.
Filtered(f, sd, ed, ipf, pf) ==
    LET f1 == IF HasCol(f, "timestamp") THEN Mask(f, DateMask(f, sd, ed)) ELSE f
        f2 == IF ipf # "" /\ (HasCol(f1, "src_ip") \/ HasCol(f1, "dst_ip"))
              THEN Mask(f1, IpMask(f1, ipf)) ELSE f1
    IN IF pf # "All" /\ HasCol(f2, "protocol") THEN Mask(f2, ProtocolMask(f2, pf)) ELSE f2

FilterApplies(f, ipf, pf) ==
    \/ HasCol(f, "timestamp")
    \/ ipf # "" /\ (HasCol(f, "src_ip") \/ HasCol(f, "dst_ip"))
    \/ pf # "All" /\ HasCol(f, "protocol")

\* app.py lines 111-136: filtered_df starts as the copy cp of data.
ApplyTo(S, cp, sd, ed, ipf, pf) ==
    IF DateFilterRaises(cp.heap[cp.id]) \/ IpFilterRaises(cp.heap[cp.id], ipf)
    THEN [S EXCEPT !.aborted = TRUE]
    ELSE IF FilterApplies(cp.heap[cp.id], ipf, pf)
    THEN [S EXCEPT !.heap = Append(cp.heap, Filtered(cp.heap[cp.id], sd, ed, ipf, pf)),
                   !.filtered_data = Len(cp.heap) + 1]
    ELSE [S EXCEPT !.heap = cp.heap, !.filtered_data = cp.id]

\* An Apply Filters button that filters what the previous filter left.
ApplyBlockOnFiltered(S, sd, ed, ipf, pf) ==
    IF S.aborted \/ ~S.file_uploaded \/ S.data = 0 THEN S
    ELSE ApplyTo(S, Copy(S.heap, S.filtered_data), sd, ed, ipf, pf)

\* app.py lines 109-139: the Apply Filters button.
ApplyBlock(S, sd, ed, ipf, pf) ==
    IF S.aborted \/ ~S.file_uploaded \/ S.data = 0 THEN S
    ELSE ApplyTo(S, Copy(S.heap, S.data), sd, ed, ipf, pf)

\* filtered_data = data.copy(), then st.rerun() ends the run.
ResetTo(S, cp) == [S EXCEPT !.heap = cp.heap, !.filtered_data = cp.id, !.aborted = TRUE]

\* app.py lines 142-145: the Reset Filters button.
ResetBlock(S) ==
    IF S.aborted \/ ~S.file_uploaded THEN S ELSE ResetTo(S, Copy(S.heap, S.data))

\* The call writes into the object filtered_data refers to.
Rendered(S, call) ==
    [S EXCEPT !.heap = [@ EXCEPT ![S.filtered_data] = call.after],
              !.stats = call, !.arg = call.after, !.aborted = call.raised]

\* app.py lines 148-160: the statistics of the main area, computed on the
\* object filtered_data refers to.
RenderBlock(S, ties) ==
    IF S.aborted \/ ~S.file_uploaded \/ S.filtered_data = 0 THEN S
    ELSE Rendered(S, CallProcess(S.heap[S.filtered_data], ties))

\* Objects no reference reaches are dropped; the rest are renumbered.
Collected(S) ==
    IF S.data = 0 THEN [S EXCEPT !.heap = <<>>]
    ELSE IF S.data = S.filtered_data
    THEN [S EXCEPT !.heap = <<S.heap[S.data]>>, !.data = 1, !.filtered_data = 1]
    ELSE [S EXCEPT !.heap = <<S.heap[S.data], S.heap[S.filtered_data]>>,
                   !.data = 1, !.filtered_data = 2]

Becomes(S) ==
    \E T \in {Collected(S)} :
       /\ heap' = T.heap
       /\ data' = T.data
       /\ filtered_data' = T.filtered_data
       /\ file_uploaded' = T.file_uploaded
       /\ start_date' = T.start_date
       /\ end_date' = T.end_date
       /\ content' = T.content
       /\ df' = T.df
       /\ stats' = T.stats
       /\ arg' = T.arg
       /\ pc' = pc
       /\ UNCHANGED <<line_data, chart>>

\* The top of every run: the upload block, then the sidebar widgets.
Sidebar(up) == WidgetsBlock(UploadBlock(Session, up))

Init ==
    /\ content = <<>>
    /\ pc = "session"
    /\ df = NotCalled
    /\ stats = NoCall
    /\ arg = EmptyFrame
    /\ SessionIdle
    /\ NothingDrawn

\* A run in which no button is pressed (an upload, or any other widget).
RunScript ==
    \E up \in Uploads, ties \in TieOrders :
        \E S1 \in {Sidebar(up)} :
            \E S2 \in {RenderBlock(S1, ties)} : Becomes(S2)

\* A run in which Apply Filters is pressed.
RunApplyFilters ==
    /\ file_uploaded
    /\ \E up \in Uploads, ties \in TieOrders, sd \in Days, ed \in Days,
          ipf \in IpFilters, pf \in ProtocolChoices :
          \E S1 \in {Sidebar(up)} :
              \E S2 \in {ApplyBlock(S1, sd, ed, ipf, pf)} :
                  \E S3 \in {RenderBlock(S2, ties)} : Becomes(S3)

\* A run in which Reset Filters is pressed.
RunResetFilters ==
    /\ file_uploaded
    /\ \E up \in Uploads :
          \E S1 \in {Sidebar(up)} :
              \E S2 \in {ResetBlock(S1)} : Becomes(S2)

Next == RunScript \/ RunApplyFilters \/ RunResetFilters

Spec == Init /\ [][Next]_vars

\* C9: the object data refers to holds exactly what the parser returned
\* for the most recent accepted upload; script runs with or without
\* Apply Filters, Reset Filters and the statistics never change it.
C9_DataIsParserResult ==
    file_uploaded =>
        /\ data # 0
        /\ heap[data] = parse_mikrotik_logs(content).frame

C9_Witness ==
    /\ file_uploaded
    /\ HasCol(heap[filtered_data], "hour")
    /\ Len(heap[filtered_data].rows) < Len(heap[data].rows)

\* The date a date_input shows for a session timestamp (.date()).
DateOf(x) == x.n \div 86400

\* The records of a frame as far as the columns cols go.
RecordsOn(f, cols) == [r \in 1..Len(f.rows) |-> [c \in cols |-> f.rows[r][c]]]

\* A run on a loaded file in which Apply Filters is pressed with the
\* widgets at their defaults: the date range from start_date to end_date,
\* no IP text, protocol 'All'.
RunApplyDefaults ==
    /\ file_uploaded
    /\ start_date.t = "ts"
    /\ \E ties \in TieOrders :
          Becomes(RenderBlock(ApplyBlock(Sidebar(NoFile), DateOf(start_date),
                                         DateOf(end_date), "", "All"), ties))

\* C17: applying the filters with the default filter state is a no-op:
\* the filtered record set holds every record of the record set, those
\* with a null timestamp included.
C17_DefaultFilterKeepsAll ==
    [][RunApplyDefaults =>
          RecordsOn(heap'[filtered_data'], Range(heap'[data'].cols))
              = RecordsOn(heap'[data'], Range(heap'[data'].cols))]_vars

\* Uploads the app rejects: the bytes do not decode, or the parser returns
\* None or an empty record set.
FailedUploads ==
    {up \in Uploads :
        /\ up.file
        /\ \/ ~up.decodes
           \/ ParsedFile[up.c].ret = "None"
           \/ IsEmpty(ParsedFile[up.c].frame)}

SessionState(S) ==
    [heap |-> S.heap, data |-> S.data, filtered_data |-> S.filtered_data,
     file_uploaded |-> S.file_uploaded, start_date |-> S.start_date,
     end_date |-> S.end_date]

\* C19: an upload whose parse fails (no record set, an empty record set or
\* an exception) leaves data, filtered_data, file_uploaded, start_date and
\* end_date as they were before the upload, whatever was loaded before.
C19_FailedUploadKeepsSession ==
    \A up \in FailedUploads :
        SessionState(UploadBlock(Session, up)) = SessionState(Session)

\* A rejected file was uploaded after an accepted one, and the accepted
\* one is still loaded.
C19_Witness ==
    /\ file_uploaded
    /\ df.by = "fail"
    /\ data # 0
    /\ Len(heap[data].rows) >= 2
    /\ start_date.t = "ts"
    /\ [file |-> TRUE, c |-> FileHeaderOnly, decodes |-> TRUE] \in FailedUploads
    /\ [file |-> TRUE, c |-> FileNoData, decodes |-> TRUE] \in FailedUploads

\* a can be obtained from b by leaving records out.
RECURSIVE IsSubsequence(_, _)
IsSubsequence(a, b) ==
    IF a = <<>> THEN TRUE
    ELSE IF b = <<>> THEN FALSE
    ELSE IF Head(a) = Head(b) THEN IsSubsequence(Tail(a), Tail(b))
    ELSE IsSubsequence(a, Tail(b))

\* C20: in every reachable session state with file_uploaded true, data and
\* filtered_data are both set and every record of filtered_data is a
\* record of data, in the same relative order.
C20_FilteredWithinData ==
    file_uploaded =>
        /\ data # 0
        /\ filtered_data # 0
        /\ IsSubsequence(heap[filtered_data].rows, heap[data].rows)


-----------------------------------------------------------------------------
(* process_traffic_data on record sets with many groups (SpecTop) *)

MaxGroups == 11

IpTexts ==
    << "10.0.0.1", "10.0.0.2", "10.0.0.3", "10.0.0.4", "10.0.0.5", "10.0.0.6",
       "10.0.0.7", "10.0.0.8", "10.0.0.9", "10.0.0.10", "10.0.0.11", "10.0.0.12",
       "10.0.0.13", "10.0.0.14" >>

\* One record of group k among n groups: the source and the port are those
\* of the group, the destination that of the next group.
TopRow(k, n, weights) ==
    [c \in {"src_ip", "dst_ip", "dst_port", "bytes"} |->
        IF c = "src_ip" THEN Str(IpTexts[k])
        ELSE IF c = "dst_ip" THEN Str(IpTexts[(k % n) + 1])
        ELSE IF c = "dst_port" THEN Num(k)
        ELSE Num(IF weights = "equal" THEN 100 ELSE 100 * k)]

\* n groups met in ascending or descending order of their number, and one
\* more record of group again (0: none).
TopFrame(n, order, again, weights) ==
    Frame(<<"src_ip", "dst_ip", "dst_port", "bytes">>, <<"object", "object", "int", "int">>,
          [i \in 1..n |-> TopRow(IF order = "asc" THEN i ELSE n + 1 - i, n, weights)]
          \o (IF again = 0 THEN <<>> ELSE <<TopRow(again, n, weights)>>))

TopFrames ==
    UNION { { TopFrame(n, order, again, weights) :
                order \in {"asc", "desc"}, again \in 0..n, weights \in {"equal", "rising"} } :
            n \in 1..MaxGroups }

InitTop ==
    /\ content = <<>>
    /\ pc = "top-input"
    /\ \E f \in TopFrames : df = Returned("DataFrame", "input", f, <<>>)
    /\ stats = NoCall
    /\ arg = EmptyFrame
    /\ SessionIdle
    /\ NothingDrawn

\* traffic_stats = process_traffic_data(df)
TopStep ==
    /\ pc = "top-input"
    /\ \E ties \in TieOrders :
          \E call \in {CallProcess(df.frame, ties)} :
              /\ stats' = call
              /\ arg' = call.after
    /\ pc' = "top-done"
    /\ UNCHANGED <<content, df, heap, data, filtered_data, file_uploaded,
                   start_date, end_date, line_data, chart>>

NextTop == TopStep

SpecTop == InitTop /\ [][NextTop]_vars

\* The six top-10 statistics, each with the column it groups by and
\* whether its metric is a record count or a sum of bytes.
TopSeries ==
    { [s |-> stats.bundle.top_sources, c |-> "src_ip", m |-> "count"],
      [s |-> stats.bundle.top_sources_by_traffic, c |-> "src_ip", m |-> "sum"],
      [s |-> stats.bundle.top_destinations, c |-> "dst_ip", m |-> "count"],
      [s |-> stats.bundle.top_destinations_by_traffic, c |-> "dst_ip", m |-> "sum"],
      [s |-> stats.bundle.top_destination_ports, c |-> "dst_port", m |-> "count"],
      [s |-> stats.bundle.top_ports_by_traffic, c |-> "dst_port", m |-> "sum"] }

Descending(s) == \A i \in 1..(Len(s) - 1) : s[i].val >= s[i + 1].val
FirstSeen(f, c, key) == MinOf(RowsWhere(f, c, key))
TiesInEncounterOrder(f, c, s) ==
    \A i, j \in 1..Len(s) :
        (i < j /\ s[i].val = s[j].val) => FirstSeen(f, c, s[i].key) < FirstSeen(f, c, s[j].key)

\* The metric of the group of key in the record set f.
MetricOf(f, t, key) ==
    IF t.m = "count" THEN Cardinality(RowsWhere(f, t.c, key))
    ELSE SumSeq([r \in 1..Len(f.rows) |->
                   IF r \in RowsWhere(f, t.c, key) THEN f.rows[r]["bytes"].n ELSE 0])
GroupsOf(f, c) == {f.rows[r][c] : r \in 1..Len(f.rows)}

-----------------------------------------------------------------------------
(* Claims about the day-of-week statistics (Spec) *)

\* Position of a day name in the week that starts on Monday.
WeekPosition(key) == CHOOSE i \in 1..7 : Str(DayNames[i]) = key
MondayFirst(s) ==
    /\ \A i \in 1..Len(s) : \E d \in 1..7 : s[i].key = Str(DayNames[d])
    /\ \A i \in 1..(Len(s) - 1) : WeekPosition(s[i].key) < WeekPosition(s[i + 1].key)

\* C11: when the record set has a timestamp column, traffic_by_day and
\* connections_by_day are keyed by day name and ordered Monday, Tuesday,
\* ..., Sunday, whatever days are present in the data.
C11_DaysMondayFirst ==
    (file_uploaded /\ ~stats.raised /\ "connections_by_day" \in stats.bundle.present) =>
        /\ MondayFirst(stats.bundle.connections_by_day)
        /\ "traffic_by_day" \in stats.bundle.present =>
              MondayFirst(stats.bundle.traffic_by_day)

-----------------------------------------------------------------------------
(* visualizer.py: the time charts, create_bandwidth_chart and              *)
(* create_connection_chart (SpecChart).  Instants count seconds from       *)
(* Monday 2023-10-02 00:00:00, so hours, days and Monday-to-Sunday weeks   *)
(* are the multiples of their length.                                      *)

MaxRecords == 3

\* The rules app.py lines 215-220 and 250-255 pass: hourly, daily, weekly.
ResampleRules == {"H", "D", "W"}
BucketSeconds(rule) == IF rule = "H" THEN 3600 ELSE IF rule = "D" THEN 86400 ELSE 7 * 86400

\* The bucket an instant falls in.  'W' is W-SUN, closed and labelled on
\* the right: a bucket is a Monday-to-Sunday week named by its Sunday.
BucketOf(t, rule) == t \div BucketSeconds(rule)
BucketLabel(i, rule) ==
    Ts(IF rule = "W" THEN i * BucketSeconds(rule) + 6 * 86400 ELSE i * BucketSeconds(rule))

\* Rows whose index value is NaT belong to no bucket.
StampedRows(f) == {r \in 1..Len(f.rows) : f.rows[r]["timestamp"].t = "ts"}
RowsInBucket(f, i, rule) ==
    {r \in StampedRows(f) : BucketOf(f.rows[r]["timestamp"].n, rule) = i}

\* The value of bucket i: the number of its rows, or the sum of their bytes.
BucketValue(f, i, rule, metric) ==
    IF metric = "size" THEN Cardinality(RowsInBucket(f, i, rule))
    ELSE SumSeq([r \in 1..Len(f.rows) |->
                   IF r \in RowsInBucket(f, i, rule) THEN NumOrZero(f.rows[r]["bytes"]) ELSE 0])

\* The buckets lo..hi in order, empty ones with 0.
BucketRun(f, rule, metric, lo, hi) ==
    [k \in 1..(hi - lo + 1) |->
        [key |-> BucketLabel(lo + k - 1, rule), val |-> BucketValue(f, lo + k - 1, rule, metric)]]

BucketsUsed(f, rule) == {BucketOf(f.rows[r]["timestamp"].n, rule) : r \in StampedRows(f)}

\* A grouping by bucket: only the buckets that hold a row.
ResampledSparse(f, rule, metric) ==
    SelectSeq(BucketRun(f, rule, metric, MinOf(BucketsUsed(f, rule)), MaxOf(BucketsUsed(f, rule))),
              LAMBDA e : \E r \in StampedRows(f) :
                            BucketLabel(BucketOf(f.rows[r]["timestamp"].n, rule), rule) = e.key)

\* df_copy[...].resample(rule).sum() / .size(): every bucket from the one
\* of the smallest index value to the one of the largest, empty ones with 0.
Resampled(f, rule, metric) ==
    BucketRun(f, rule, metric, MinOf(BucketsUsed(f, rule)), MaxOf(BucketsUsed(f, rule)))

\* series / (1024**2)
InMegabytes(s) == [k \in 1..Len(s) |-> [key |-> s[k].key, val |-> Ratio(s[k].val, 1024 * 1024)]]

\* Lines 18-28: bandwidth_data, in MB.
create_bandwidth_chart(f, rule) ==
    IF ~HasCol(f, "timestamp") \/ ~HasCol(f, "bytes") THEN [raised |-> FALSE, series |-> <<>>]
    ELSE IF DtypeOf(f, "timestamp") # "datetime" \/ BytesRaises(f)
    THEN [raised |-> TRUE, series |-> <<>>]
    ELSE [raised |-> FALSE, series |-> InMegabytes(Resampled(f, rule, "sum"))]

\* Lines 64-74: connections_data.
create_connection_chart(f, rule) ==
    IF ~HasCol(f, "timestamp") THEN [raised |-> FALSE, series |-> <<>>]
    ELSE IF DtypeOf(f, "timestamp") # "datetime" THEN [raised |-> TRUE, series |-> <<>>]
    ELSE [raised |-> FALSE, series |-> Resampled(f, rule, "size")]

\* Record sets of at most MaxRecords records with a timestamp and a bytes
\* column; either may be null, and at least one timestamp is not (an index
\* of NaT alone is left out: what resample does with it is not modelled).
ChartStamps == {Instant(3, 30225), Instant(3, 33000), Instant(4, 0), Instant(7, 33000)}
ChartRows ==
    [{"timestamp", "bytes"} -> {Ts(t) : t \in ChartStamps} \cup {NaT, Num(64), NaN}]
ChartRow(r) == r["timestamp"].t \in {"ts", "nat"} /\ r["bytes"].t \in {"num", "nan"}
ChartFrames ==
    { Frame(<<"timestamp", "bytes">>,
            <<"datetime", InferDtype([i \in 1..Len(rows) |-> rows[i]["bytes"]])>>, rows) :
        rows \in {q \in UNION {[1..n -> {r \in ChartRows : ChartRow(r)}] : n \in 1..MaxRecords} :
                    \E i \in 1..Len(q) : q[i]["timestamp"].t = "ts"} }

InitChart ==
    /\ content = <<>>
    /\ pc = "chart-input"
    /\ \E f \in ChartFrames : df = Returned("DataFrame", "input", f, <<>>)
    /\ stats = NoCall
    /\ arg = EmptyFrame
    /\ SessionIdle
    /\ NothingDrawn

\* app.py lines 160, 222 and 257: the statistics, then the two time charts
\* for the interval chosen.
ChartStep ==
    /\ pc = "chart-input"
    /\ \E ties \in TieOrders, rule \in ResampleRules :
          \E call \in {CallProcess(df.frame, ties)} :
             \E bw \in {create_bandwidth_chart(call.after, rule)} :
                \E cn \in {create_connection_chart(call.after, rule)} :
                   /\ stats' = call
                   /\ arg' = call.after
                   /\ chart' = [raised |-> bw.raised \/ cn.raised, rule |-> rule,
                                bandwidth_data |-> bw.series, connections_data |-> cn.series]
    /\ pc' = "charted"
    /\ UNCHANGED <<content, df, heap, data, filtered_data, file_uploaded,
                   start_date, end_date, line_data>>

NextChart == ChartStep

SpecChart == InitChart /\ [][NextChart]_vars

-----------------------------------------------------------------------------
(* Claims about the time charts (SpecChart) *)

Charted == pc = "charted" /\ ~chart.raised

\* C12: for a record set with timestamp and bytes columns the hourly
\* buckets of the resampled bytes series add up to total_bytes of
\* process_traffic_data over the same record set, records with a null
\* timestamp included.
C12_HourlyBucketsSumToTotal ==
    (Charted /\ chart.rule = "H") =>
        SumSeq([k \in 1..Len(chart.bandwidth_data) |-> chart.bandwidth_data[k].val.num])
            = stats.bundle.total_bytes

\* The instants of the record set that was charted.
ChartedStamps == {df.frame.rows[r]["timestamp"].n : r \in StampedRows(df.frame)}
IntervalOf(rule) == IF rule = "H" THEN 3600 ELSE IF rule = "D" THEN 24 * 3600 ELSE 7 * 24 * 3600
\* Where the bucket of an entry starts: at its label, a week six days
\* before the Sunday that labels it.
StartOf(e, rule) == IF rule = "W" THEN e.key.n - 6 * 24 * 3600 ELSE e.key.n
Covers(e, t, rule) == StartOf(e, rule) <= t /\ t < StartOf(e, rule) + IntervalOf(rule)
RowsCovered(e, rule) ==
    {r \in 1..Len(df.frame.rows) :
        /\ df.frame.rows[r]["timestamp"].t = "ts"
        /\ Covers(e, df.frame.rows[r]["timestamp"].n, rule)}
Ceil(a, b) == (a + b - 1) \div b

\* Contiguous calendar-aligned buckets from the one holding the smallest
\* instant to the one holding the largest.
ContiguousAligned(s, rule) ==
    /\ s # <<>>
    /\ \A k \in 1..Len(s) : s[k].key.t = "ts" /\ StartOf(s[k], rule) % IntervalOf(rule) = 0
    /\ \A k \in 1..(Len(s) - 1) :
          StartOf(s[k + 1], rule) = StartOf(s[k], rule) + IntervalOf(rule)
    /\ Covers(s[1], MinOf(ChartedStamps), rule)
    /\ Covers(s[Len(s)], MaxOf(ChartedStamps), rule)
\* Each bucket holds the count, or the bytes, of the records in it: zero
\* when it is empty.
BucketsFilled ==
    /\ \A k \in 1..Len(chart.connections_data) :
          chart.connections_data[k].val
             = Cardinality(RowsCovered(chart.connections_data[k], chart.rule))
    /\ \A k \in 1..Len(chart.bandwidth_data) :
          chart.bandwidth_data[k].val.num
             = SumSeq([r \in 1..Len(df.frame.rows) |->
                         IF r \in RowsCovered(chart.bandwidth_data[k], chart.rule)
                            /\ df.frame.rows[r]["bytes"].t = "num"
                         THEN df.frame.rows[r]["bytes"].n ELSE 0])

\* C13 as stated: resampling yields a contiguous run of calendar-aligned
\* buckets from the bucket of the minimum timestamp to the bucket of the
\* maximum timestamp, empty buckets present with value zero, and the
\* number of buckets is ceil((max - min) / interval).
C13_BucketCountIsCeilOfSpan ==
    Charted =>
        /\ ContiguousAligned(chart.bandwidth_data, chart.rule)
        /\ ContiguousAligned(chart.connections_data, chart.rule)
        /\ BucketsFilled
        /\ Len(chart.connections_data)
              = Ceil(MaxOf(ChartedStamps) - MinOf(ChartedStamps), IntervalOf(chart.rule))
        /\ Len(chart.bandwidth_data)
              = Ceil(MaxOf(ChartedStamps) - MinOf(ChartedStamps), IntervalOf(chart.rule))

\* C13 amended: ... and the number of buckets is the number of calendar
\* intervals from the one holding the minimum timestamp to the one holding
\* the maximum timestamp, both included: floor(max / interval) -
\* floor(min / interval) + 1 counted from a calendar boundary (one bucket
\* when both fall in the same interval).
C13_BucketCountIsIntervalsTouched ==
    Charted =>
        /\ ContiguousAligned(chart.bandwidth_data, chart.rule)
        /\ ContiguousAligned(chart.connections_data, chart.rule)
        /\ BucketsFilled
        /\ Len(chart.connections_data)
              = (MaxOf(ChartedStamps) \div IntervalOf(chart.rule))
                  - (MinOf(ChartedStamps) \div IntervalOf(chart.rule)) + 1
        /\ Len(chart.bandwidth_data) = Len(chart.connections_data)

C13_Witness ==
    /\ Charted
    /\ chart.rule = "D"
    /\ Len(chart.connections_data) >= 3
    /\ \E k \in 1..Len(chart.connections_data) : chart.connections_data[k].val = 0
    /\ Len(chart.connections_data)
          # Ceil(MaxOf(ChartedStamps) - MinOf(ChartedStamps), IntervalOf(chart.rule))

-----------------------------------------------------------------------------
(* Claims about the bundle and the records of a parsed file (SpecParse) *)

\* The fields each statistic of the bundle depends on.
Depends ==
    ( "total_records" :> {} @@ "total_bytes" :> {"bytes"} @@ "total_mb" :> {"bytes"}
      @@ "total_gb" :> {"bytes"} @@ "avg_bytes_per_record" :> {"bytes"}
      @@ "unique_sources" :> {"src_ip"} @@ "top_sources" :> {"src_ip"}
      @@ "top_sources_by_traffic" :> {"src_ip", "bytes"}
      @@ "unique_destinations" :> {"dst_ip"} @@ "top_destinations" :> {"dst_ip"}
      @@ "top_destinations_by_traffic" :> {"dst_ip", "bytes"}
      @@ "protocol_distribution" :> {"protocol"}
      @@ "timespan" :> {"timestamp"} @@ "connections_by_hour" :> {"timestamp"}
      @@ "connections_by_day" :> {"timestamp"}
      @@ "traffic_by_hour" :> {"timestamp", "bytes"}
      @@ "traffic_by_day" :> {"timestamp", "bytes"}
      @@ "top_destination_ports" :> {"dst_port"}
      @@ "top_ports_by_traffic" :> {"dst_port", "bytes"} )

\* C14: for every record set, whatever subset of bytes, src_ip, dst_ip,
\* protocol, timestamp, dst_port its schema has, process_traffic_data
\* returns a bundle without raising; total_records is present and every
\* other statistic is present exactly when all fields it depends on are.
C14_BundleForEverySchema ==
    pc = "aggregated" =>
        /\ ~stats.raised
        /\ \A k \in DOMAIN Depends :
              (k \in stats.bundle.present) <=> (Depends[k] \subseteq Range(df.frame.cols))

\* C18: no record of the returned record set comes from a blank line or a
\* comment line, and the records follow the order of their source lines:
\* there are never more records than non-blank, non-comment lines.
C18_NoRecordFromCommentLines ==
    (Parsed /\ df.ret = "DataFrame") => Len(df.frame.rows) <= Len(Lines)

-----------------------------------------------------------------------------
(* One line through the key=value extraction:                              *)
(* data_processor.py lines 51-58 and 60-97                                 *)

MaxPairs == 3

\* key=value tokens of router log lines; two spellings of a key differ in
\* case or in hyphen / underscore only.
PairVocab ==
    { KV("src-ip", "192.168.1.10"), KV("SRC_IP", "203.0.113.5"),
      KVQ("protocol", "TCP"), KV("bytes", "1240"), KV("Bytes", "not_a_number") }

\* What a log line starts with: nothing, or a timestamp in one of the
\* layouts of timestamp_patterns.
StampPrefixes ==
    { <<>>,
      <<W(P("2023-10-05")), W(P("08:23:45"))>>,
      <<W(P("10/5/2023")), W(P("09:10:00"))>> }

PairRuns == UNION {[1..n -> PairVocab] : n \in 1..MaxPairs}
WordsOf(run) == [i \in 1..Len(run) |-> W(run[i])]

\* The orders in which n tokens can be written.
Orders(n) == {f \in [1..n -> 1..n] : \A i, j \in 1..n : f[i] = f[j] => i = j}
Reordered(run, f) == [i \in 1..Len(run) |-> run[f[i]]]

\* content holds the prefix and the key=value tokens of the line read, and
\* after a second reading the tokens of the line read second.
KvInput(prefix, run) == [prefix |-> prefix, run |-> run, again |-> <<>>]
LineRead == content.prefix \o WordsOf(content.run)

\* %Y-%m-%dT%H:%M:%S of an instant.
IsoTable ==
    ( Instant(3, 30225) :> "2023-10-05T08:23:45"
      @@ Instant(3, 33000) :> "2023-10-05T09:10:00" )

\* A record written back as key=value tokens, the timestamp in ISO form.
Reserialized(d) ==
    [i \in 1..Len(d) |->
        IF d[i].v.t = "ts" THEN W(KV(d[i].k, IsoTable[d[i].v.n]))
        ELSE W(KV(d[i].k, d[i].v.s))]

InitKv ==
    /\ \E prefix \in StampPrefixes, run \in PairRuns :
          content = KvInput(prefix, run)
    /\ pc = "kv-input"
    /\ df = NotCalled
    /\ stats = NoCall
    /\ arg = EmptyFrame
    /\ SessionIdle
    /\ NothingDrawn

\* Lines 61-93 for the line.
KvExtract ==
    /\ pc = "kv-input"
    /\ line_data' = <<KvLineData(LineRead)>>
    /\ pc' = "kv-extracted"
    /\ UNCHANGED <<content, df, stats, arg, heap, data, filtered_data,
                   file_uploaded, start_date, end_date, chart>>

\* Lines 61-93 for the same tokens in another order.
KvExtractReordered ==
    /\ pc = "kv-extracted"
    /\ \E f \in Orders(Len(content.run)) :
          \E line \in {WordsOf(Reordered(content.run, f))} :
              /\ content' = [content EXCEPT !.again = line]
              /\ line_data' = Append(line_data, KvLineData(content.prefix \o line))
    /\ pc' = "kv-reordered"
    /\ UNCHANGED <<df, stats, arg, heap, data, filtered_data,
                   file_uploaded, start_date, end_date, chart>>

\* Lines 61-93 for the record written back as a line.
KvExtractReserialized ==
    /\ pc = "kv-extracted"
    /\ \E line \in {Reserialized(line_data[1])} :
          /\ content' = [content EXCEPT !.again = line]
          /\ line_data' = Append(line_data, KvLineData(line))
    /\ pc' = "kv-reserialized"
    /\ UNCHANGED <<df, stats, arg, heap, data, filtered_data,
                   file_uploaded, start_date, end_date, chart>>

NextKv == KvExtract \/ KvExtractReordered \/ KvExtractReserialized

SpecKv == InitKv /\ [][NextKv]_vars

-----------------------------------------------------------------------------
(* Claims about the key=value extraction of one line *)

\* The spelling the extracted record uses for each key of the vocabulary:
\* lower case, hyphens as underscores.
RecordKey ==
    ( "src-ip" :> "src_ip" @@ "SRC_IP" :> "src_ip" @@ "protocol" :> "protocol"
      @@ "bytes" :> "bytes" @@ "Bytes" :> "bytes" )

\* The fields of a record other than the extracted timestamp, as a set of
\* <<key, text>> pairs.
Fields(d) == {<<d[i].k, d[i].v.s>> : i \in {j \in 1..Len(d) : d[j].v.t # "ts"}}

\* The pairs written on the line, keys in record spelling.
Written(run) == {<<RecordKey[run[i].k], run[i].v>> : i \in 1..Len(run)}

\* For each record key, the pair written last with that key.
WrittenLast(run) ==
    {<<RecordKey[run[i].k], run[i].v>> :
        i \in {j \in 1..Len(run) :
                 \A m \in (j + 1)..Len(run) : RecordKey[run[m].k] # RecordKey[run[j].k]}}

DistinctKeys(run) ==
    \A i, j \in 1..Len(run) : RecordKey[run[i].k] = RecordKey[run[j].k] => i = j

\* C15 as stated: the fields extracted from a line k1=v1 k2=v2 ... are
\* exactly the pairs written (keys lower-cased, hyphens as underscores,
\* quotes removed), and writing the pairs in another order gives the same
\* fields.
C15_MappingExactAnyOrder ==
    /\ pc # "kv-input" => Fields(line_data[1]) = Written(content.run)
    /\ pc = "kv-reordered" => Fields(line_data[2]) = Fields(line_data[1])

\* C15 amended: the fields are, for each record key, the pair written last
\* with that key; when no two keys of the line share a record key they are
\* exactly the pairs written, in whatever order the pairs are written.
C15_MappingKeepsLastPair ==
    /\ pc # "kv-input" => Fields(line_data[1]) = WrittenLast(content.run)
    /\ (pc = "kv-reordered" /\ DistinctKeys(content.run)) =>
          /\ Fields(line_data[1]) = Written(content.run)
          /\ Fields(line_data[2]) = Fields(line_data[1])

\* Three pairs with distinct record keys, one of them quoted and one with
\* an upper-case key, read in reverse order.
C15_Witness ==
    /\ pc = "kv-reordered"
    /\ Len(content.run) = 3
    /\ DistinctKeys(content.run)
    /\ \E i \in 1..3 : content.run[i] = KVQ("protocol", "TCP")
    /\ \E i \in 1..3 : content.run[i].k = "SRC_IP"
    /\ content.again = WordsOf(Reordered(content.run, [i \in 1..3 |-> 4 - i]))
    /\ Fields(line_data[2]) = Written(content.run)

\* The extracted timestamp of a record, NaT when it has none or holds
\* something that is not an instant.
StampOf(d) ==
    IF DictHas(d, "timestamp") /\ DictGet(d, "timestamp").t = "ts"
    THEN DictGet(d, "timestamp") ELSE NaT

\* C16: a record with a timestamp, written back as a key=value line with
\* the timestamp in ISO form (YYYY-MM-DDTHH:MM:SS) and read again, gives a
\* record with the same instant as timestamp.
C16_ReextractedInstantIsSame ==
    (pc = "kv-reserialized" /\ StampOf(line_data[1]).t = "ts") =>
        StampOf(line_data[2]) = StampOf(line_data[1])

-----------------------------------------------------------------------------
(* The filter buttons on a loaded file: app.py lines 80-160 *)

LineHeaderNoIp == << <<P("timestamp"), P("bytes")>> >>
LineRowNoIp == << W(P("2023-10-05")), <<P("08:23:45"), P("1240")>> >>
LineRowNoIpSmall == << W(P("2023-10-06")), <<P("09:10:00"), P("64")>> >>
LineRowNumberIp == << W(P("2023-10-05")), <<P("08:23:45"), P("53"), P("1240")>> >>
LineRowNumberIpSmall == << W(P("2023-10-06")), <<P("09:10:00"), P("443"), P("64")>> >>

\* A table without address columns, and one whose src_ip column read_csv
\* reads as integers.
FileNoIp == <<LineHeaderNoIp, LineRowNoIp, LineRowNoIpSmall>>
FileNumberIp == <<LineHeader, LineRowNumberIp, LineRowNumberIpSmall>>

\* Three records that differ in day, addresses and protocol, the third
\* without a timestamp.
LineKvFriday ==
    << W(P("2023-10-06")), W(P("09:10:00")), W(KV("src-ip", "203.0.113.5")),
       W(KV("protocol", "UDP")), W(KV("bytes", "64")) >>
FileKvThree == <<LineSample, LineKvFriday, LineKvNoStamp, LineJunkComma>>
FileKvTwo == <<LineSample, LineKvFriday, LineJunkComma>>
FileTableThree == <<LineHeader, LineRow, LineRowSmall, LineRowSmall>>

\* Tables with both address columns and a protocol column, with and
\* without timestamps.
LineHeaderFlows == << <<P("timestamp"), P("src_ip"), P("dst_ip"), P("protocol")>> >>
LineFlowA ==
    << W(P("2023-10-05")),
       <<P("08:23:45"), P("192.168.1.10"), P("203.0.113.5"), P("TCP")>> >>
LineFlowB ==
    << W(P("2023-10-06")),
       <<P("09:10:00"), P("203.0.113.5"), P("203.0.113.5"), P("UDP")>> >>
LineFlowC ==
    << W(P("2023-10-06")),
       <<P("09:10:00"), P("192.168.1.10"), P("192.168.1.10"), P("UDP")>> >>
FileFlows == <<LineHeaderFlows, LineFlowA, LineFlowB, LineFlowC>>
LineHeaderPeers == << <<P("src_ip"), P("dst_ip"), P("protocol")>> >>
LinePeerA == << <<P("192.168.1.10"), P("203.0.113.5"), P("TCP")>> >>
LinePeerB == << <<P("203.0.113.5"), P("203.0.113.5"), P("UDP")>> >>
LinePeerC == << <<P("192.168.1.10"), P("192.168.1.10"), P("UDP")>> >>
FilePeers == <<LineHeaderPeers, LinePeerA, LinePeerB, LinePeerC>>

FilterFiles ==
    { FileTable, FileTableThree, FileKv, FileKvTwo, FileKvThree, FileKvNoStamp,
      FileColumns, FileNoIp, FileNumberIp, FileFlows, FilePeers }

\* The session state of lines 38-47, before any upload.
IdleSession ==
    [heap |-> <<>>, data |-> 0, filtered_data |-> 0, file_uploaded |-> FALSE,
     start_date |-> None, end_date |-> None, content |-> <<>>, df |-> NotCalled,
     stats |-> NoCall, arg |-> EmptyFrame, aborted |-> FALSE]

\* The session after the run in which the file c was uploaded.
Loaded(c, ties) ==
    Collected(RenderBlock(WidgetsBlock(AcceptUpload(IdleSession, c,
                                                    parse_mikrotik_logs(c))), ties))

InitFilter ==
    /\ pc = "session"
    /\ NothingDrawn
    /\ \E c \in FilterFiles, ties \in TieOrders :
          \E T \in {Loaded(c, ties)} :
              /\ heap = T.heap
              /\ data = T.data
              /\ filtered_data = T.filtered_data
              /\ file_uploaded = T.file_uploaded
              /\ start_date = T.start_date
              /\ end_date = T.end_date
              /\ content = T.content
              /\ df = T.df
              /\ stats = T.stats
              /\ arg = T.arg

\* parse_mikrotik_logs on each of these files.
ParsedFilterFile == [c \in FilterFiles |-> parse_mikrotik_logs(c)]

\* The top of a run: the uploader still holds the loaded file (it is
\* parsed and stored again, lines 54-68) or has been emptied.
FilterSidebar(S, held) ==
    WidgetsBlock(IF held THEN AcceptUpload(S, S.content, ParsedFilterFile[S.content])
                 ELSE S)

\* A run in which no button is pressed.
FilterRunScript ==
    \E held \in BOOLEAN, ties \in TieOrders :
        \E S1 \in {FilterSidebar(Session, held)} :
            \E S2 \in {RenderBlock(S1, ties)} : Becomes(S2)

\* A run in which Apply Filters is pressed.
FilterRunApply ==
    \E held \in BOOLEAN, ties \in TieOrders, sd \in Days, ed \in Days,
       ipf \in IpFilters, pf \in ProtocolChoices :
        \E S1 \in {FilterSidebar(Session, held)} :
            \E S2 \in {ApplyBlock(S1, sd, ed, ipf, pf)} :
                \E S3 \in {RenderBlock(S2, ties)} : Becomes(S3)

\* A run in which Reset Filters is pressed.
FilterRunReset ==
    \E held \in BOOLEAN :
        \E S1 \in {FilterSidebar(Session, held)} :
            \E S2 \in {ResetBlock(S1)} : Becomes(S2)

NextFilter == FilterRunScript \/ FilterRunApply \/ FilterRunReset

SpecFilter == InitFilter /\ [][NextFilter]_vars

-----------------------------------------------------------------------------
(* Claims about the filter buttons (SpecFilter) *)

FilterStates == Days \X Days \X IpFilters \X ProtocolChoices

\* The conditions of a filter state on record r of the record set f.
InDateRange(f, r, sd, ed) ==
    /\ f.rows[r]["timestamp"].t = "ts"
    /\ f.rows[r]["timestamp"].n >= Instant(sd, 0)
    /\ f.rows[r]["timestamp"].n <= Instant(ed, 86399)
AddressMatches(f, r, ipf) ==
    \/ HasCol(f, "src_ip") /\ Contains(f.rows[r]["src_ip"], ipf)
    \/ HasCol(f, "dst_ip") /\ Contains(f.rows[r]["dst_ip"], ipf)
ProtocolEquals(f, r, pf) == f.rows[r]["protocol"] = Str(pf)

\* As stated: a record passes when its timestamp is in the date range (for
\* a record set with timestamps), its src_ip or dst_ip matches the IP text
\* (unless the text is empty) and its protocol is the one chosen (unless
\* 'All' is chosen).
PassesAsStated(f, r, w) ==
    /\ HasCol(f, "timestamp") => InDateRange(f, r, w[1], w[2])
    /\ w[3] # "" => AddressMatches(f, r, w[3])
    /\ w[4] # "All" => (HasCol(f, "protocol") /\ ProtocolEquals(f, r, w[4]))

\* Each condition only where the record set has the columns it tests.
Passes(f, r, w) ==
    /\ HasCol(f, "timestamp") => InDateRange(f, r, w[1], w[2])
    /\ (w[3] # "" /\ (HasCol(f, "src_ip") \/ HasCol(f, "dst_ip"))) =>
           AddressMatches(f, r, w[3])
    /\ (w[4] # "All" /\ HasCol(f, "protocol")) => ProtocolEquals(f, r, w[4])

\* The Apply Filters block for the filter state w, after the top of a run.
Applied(S, held, w) == ApplyBlock(FilterSidebar(S, held), w[1], w[2], w[3], w[4])
Clicked(S) == [S EXCEPT !.aborted = FALSE]
RecordsLeft(S) == S.heap[S.filtered_data].rows

\* C21 as stated: Apply Filters sets the filtered record set to exactly the
\* records of data that pass the date range, the address match and the
\* protocol equality, computed from data and not from the previous
\* filtered record set.
C21_FilteredIsPassingRecords ==
    \A held \in BOOLEAN, w \in FilterStates :
        LET S2 == Applied(Session, held, w)
        IN ~S2.aborted =>
              RecordsLeft(S2) =
                  SelectRows(heap[data].rows,
                             {r \in 1..Len(heap[data].rows) :
                                 PassesAsStated(heap[data], r, w)}, 1)

\* C21 amended: each condition applies only where the record set has the
\* columns it tests, a record with a null timestamp never passes the date
\* range, and a press on which a filter raises assigns nothing to the
\* filtered record set; otherwise the filtered record set is exactly the passing
\* records of data in order, whatever it held before, so applying a filter
\* state twice gives what applying it once gives and a wider filter state
\* brings back what a narrower one removed.
C21_FilteredIsRecomputedFromData ==
    \A held \in BOOLEAN, w \in FilterStates :
        LET S2 == Applied(Session, held, w)
            kept == {r \in 1..Len(heap[data].rows) : Passes(heap[data], r, w)}
        IN /\ S2.heap[S2.data] = heap[data]
           /\ S2.aborted <=> (w[3] # "" /\ IpFilterRaises(heap[data], w[3]))
           /\ S2.aborted =>
                 S2.heap[S2.filtered_data] =
                     LET S1 == FilterSidebar(Session, held)
                     IN S1.heap[S1.filtered_data]
           /\ ~S2.aborted =>
                 /\ RecordsLeft(S2) = SelectRows(heap[data].rows, kept, 1)
                 /\ RecordsLeft(Applied(Clicked(S2), held, w)) = RecordsLeft(S2)
                 /\ \A v \in FilterStates :
                       LET S3 == Applied(Clicked(S2), held, v)
                       IN (~S3.aborted
                             /\ \A r \in kept : Passes(heap[data], r, v)) =>
                              IsSubsequence(RecordsLeft(S2), RecordsLeft(S3))

\* A narrower filter state has removed records, the statistics have been
\* computed on what it left, and the widest filter state brings all the
\* records of data back.
C21_Witness ==
    /\ file_uploaded
    /\ Len(heap[data].rows) = 3
    /\ Len(heap[filtered_data].rows) = 1
    /\ HasCol(heap[filtered_data], "hour")
    /\ RecordsLeft(Applied(Session, FALSE, <<3, MaxDay, "", "All">>)) = heap[data].rows

====
